---- MODULE Spec2Model ----
(***************************************************************************)
(* A model of the ArmorCode web-agent worker (src/web-agent/app/worker.py). *)
(*                                                                         *)
(* The module holds these specifications over one set of variables:        *)
(*   SpecTask  one execution of process_task_async, step by step at the    *)
(*             points where the greenlet yields (HTTP calls, sleeps, the   *)
(*             rate limiter's wait), with the per-task Timeout, the        *)
(*             watchdog's sweep and a kill by restart or shutdown;         *)
(*   SpecRL    the RateLimiter under a discrete clock;                     *)
(*   SpecRLLive  SpecRL with time advancing for ever and the callers in    *)
(*             throttle() polling when due;                                *)
(*   Spec      the WatchdogWorker: fetcher, handoff queue, queue           *)
(*             processor, pool, watchdog and restart, with each execution  *)
(*             reduced to its target request and control-plane calls;      *)
(*   SpecShutdown  Spec with a shutdown signal arriving at any moment;     *)
(*   SpecRestartLive  SpecShutdown with the main loop scheduled fairly;    *)
(*   SpecLive  Spec with the executions scheduled fairly;                  *)
(*   SpecHandoff  Spec started with either pool size and one more task;    *)
(*   SpecHealth  HealthMetrics, the watchdog's check and the restart it    *)
(*             requests, under a discrete clock;                           *)
(*   SpecFetch _get_task_loop: its attempts, the child greenlet, the       *)
(*             health timestamps, the waits and the backoff;               *)
(*   SpecTimeout  the read timeout process_task computes from expiryTsMs;  *)
(*   SpecConfig  update_agent_config applied to the configuration;         *)
(*   SpecMetrics  BufferedMetricsLogger: writers, the auto-flush loop,     *)
(*             flush_now and the shutdown handler.                         *)
(* A specification leaves the other specifications' variables untouched.   *)
(***************************************************************************)
EXTENDS Integers, Sequences, FiniteSets, TLC

VARIABLES
    \* ---- SpecTask: one execution of process_task_async ----
    pc,            \* where the task greenlet is (a yield point), "queued" or "done"
    task,          \* the task dictionary, mutated in place into the TaskResult
    files,         \* temp files of this task that exist on disk
    attempt,       \* upload_response: the loop's attempt (1..max_retries)
    count,         \* update_task: the retry count of the current call
    timer,         \* the per-task Timeout: "armed", "fired", then "swept"
    upload_to_ac,  \* config_dict['upload_to_ac']
    bodySize,      \* size of the streamed response body, -1 before a response
    posted,        \* history: every result post issued (endpoint, task JSON)
    ok200,         \* history: the result posts the control plane answered 200 (endpoints)
    calls,         \* history: control-plane and object-store calls issued
    outcome,       \* history: how the execution ended
    route,         \* history: the branch process_task took for the body
    targetOutcome, \* history: how the target request ended
    lastResp,      \* history: the last result post's endpoint and response status
    lastHint,      \* history: what that response said about retrying (body marker,
                   \*   X-Rate-Limit-Retry-After-Seconds header)
    unthrottled,   \* history: endpoints called without a rate-limiter admission
    putSent,       \* history: put-result requests sent
    uploadSent,    \* history: upload-result requests sent
    retry_delay,   \* upload_response: retry_delay
    putWait,       \* history: seconds update_task slept before its current attempt
    uploadWait,    \* history: seconds upload_response slept before its current attempt
    \* ---- SpecRL: the RateLimiter ----
    now,           \* time.time(), in ticks
    timestamps,    \* RateLimiter.timestamps (the deque, oldest first)
    admitted,      \* history: the times at which allow_request returned True
    cpc,           \* each caller's position in throttle()
    \* ---- Spec: the WatchdogWorker ----
    fetcher,          \* _get_task_loop: "throttle", "fetching", "sleep", "put",
                      \*   "stopped" (left the loop) or "dead" (killed)
    fetchTask,        \* the task the fetcher is blocked putting on the queue
    orphans,          \* get-task child greenlets whose fetcher was killed
    task_queue,       \* WatchdogWorker.task_queue
    qp,               \* _queue_processor_loop: "get", "spawn", "stopped", "dead"
    qpTask,           \* the task the queue processor holds while pool.spawn blocks
    poolSize,         \* size of WatchdogWorker.pool (as last created)
    poolAlive,        \* WatchdogWorker.pool is not None
    poolMembers,      \* the greenlets (task ids) in WatchdogWorker.pool
    exec,             \* each task's execution: where its greenlet is
    registry,         \* GreenletManager._registry (task ids)
    expired,          \* live executions whose Timeout has fired
    thread_pool_size, \* config_dict['thread_pool_size']
    restart_event,    \* WatchdogWorker._restart_event
    shutdown_event,   \* WatchdogWorker._shutdown_event
    main,             \* _main_event_loop: "loop", a step of _handle_restart, "exited"
    watchdog,         \* _watchdog_loop: "alive", "stopped", "dead"
    nextTask,         \* the next task the control plane hands out
    restarts,         \* WatchdogWorker._restart_count
    lateGetTask,      \* history: a get-task call was issued after the shutdown signal
    limiterUsed,      \* RateLimiter.timestamps holds at least one admission
    sweepVictim,      \* the execution cleanup_dead_greenlets waits for in kill(), or 0
    sweepDead,        \* what is left of the sweep's get_dead_greenlets() list
    sweepMissed,      \* history: a sweep ended with an expired execution running
    queueMax,         \* task_queue.maxsize, fixed when the worker is constructed
    tasksLeft,        \* tasks the control plane still has for this agent
    \* ---- SpecHealth: HealthMetrics and the watchdog's check ----
    hmNow,                \* time.time(), in watchdog ticks
    last_get_task_call,   \* HealthMetrics._last_get_task_call (None when never set)
    last_task_received,   \* HealthMetrics._last_task_received (None when never set)
    start_time,           \* HealthMetrics._start_time
    hmRestartEvent,       \* WatchdogWorker._restart_event
    watchNext,            \* the time at which the watchdog wakes for its next check
    lastCheck,            \* history: the last is_healthy() verdict and what it was due to
    refGet,               \* history: time of the last get-task call, start or reset
    refRecv,              \* history: time of the last task received, start or reset
    restartAt,            \* history: time the last _handle_restart completed (None: never)
    afterReset,           \* history: the two timestamps as _handle_restart left them
    checksSinceRestart,   \* history: watchdog checks since the last restart (up to 2)
    \* ---- SpecFetch: the waits of _get_task_loop ----
    gtPc,                 \* _get_task_loop: "top", "fetching", "put", "sleep"
    thread_backoff_time,  \* _get_task_loop: thread_backoff_time
    gtSleep,              \* the duration of the sleep the loop is in
    gtStatus,             \* history: the last get-task outcome: a response and its
                          \*   status code, "none" (no result) or "timeout"
    gtHadTask,            \* history: the last response carried a task
    gtDue,                \* history: thread_backoff_time when the last response arrived
    gtWaited,             \* history: seconds slept since the last response
    gtChild,              \* the attempt's fetch_greenlet: "none", "running",
                          \* "returned", "killed"
    gtAttempt,            \* the number of get-task attempts begun (the loop's clock)
    gtLastGetTaskCall,    \* health_metrics._last_get_task_call, as an attempt number
    gtLastTaskReceived,   \* health_metrics._last_task_received, as an attempt number
    gtPut,                \* history: the attempt whose task was last put on task_queue
    \* ---- SpecTimeout: the read timeout of the target request ----
    rtPc,                 \* process_task: "start", "computed", "requested", "raised"
    expiryTime,           \* process_task: expiryTime (the task's expiryTsMs), in ms
    rtNowMs,              \* round(time.time() * 1000) when the timeout is computed
    timeout,              \* process_task: timeout, in seconds
    \* ---- SpecConfig: update_agent_config ----
    config,               \* config_dict, the rate limiter's limits and the log level
    cfgGc,                \* history: the globalConfig applied last
    cfgBefore,            \* history: the configuration before the last application
    cfgRepeat,            \* history: the last two applications had the same globalConfig
    cfgApplied,           \* history: globalConfigs applied so far
    \* ---- SpecMetrics: BufferedMetricsLogger ----
    mBuffer,              \* BufferedMetricsLogger.buffer (event ids, oldest first)
    mWritten,             \* the metrics file: the events written, in order
    mNext,                \* the id of the next event to be recorded
    mClock,               \* time.time(), in ticks
    last_flush_time,      \* BufferedMetricsLogger.last_flush_time
    shutdown_flag,        \* BufferedMetricsLogger.shutdown_flag
    flush_greenlet,       \* _auto_flush_loop: "sleeping" or "stopped"
    mPhase,               \* the process: "running", "signalled", "exited"
    mLate                 \* history: events recorded after the shutdown signal

retryVars == <<lastResp, lastHint, unthrottled, putSent, uploadSent, retry_delay, putWait,
               uploadWait>>
vars ==
    <<<<pc, task, files, attempt, count, timer, upload_to_ac, bodySize,
      posted, ok200, calls, outcome, route, targetOutcome, retryVars>>,
      <<now, timestamps, admitted, cpc>>,
      <<fetcher, fetchTask, orphans, task_queue, qp, qpTask, poolSize,
      poolAlive, poolMembers, exec, registry, expired, thread_pool_size,
      restart_event, shutdown_event, main, watchdog, nextTask, restarts,
      lateGetTask, limiterUsed, sweepVictim, sweepDead, sweepMissed,
      queueMax, tasksLeft>>,
      <<hmNow, last_get_task_call, last_task_received, start_time,
      hmRestartEvent, watchNext, lastCheck, refGet, refRecv, restartAt,
      afterReset, checksSinceRestart>>,
      <<gtPc, thread_backoff_time, gtSleep, gtStatus, gtHadTask, gtDue,
      gtWaited, gtChild, gtAttempt, gtLastGetTaskCall, gtLastTaskReceived,
      gtPut>>,
      <<rtPc, expiryTime, rtNowMs, timeout>>,
      <<config, cfgGc, cfgBefore, cfgRepeat, cfgApplied>>,
      <<mBuffer, mWritten, mNext, mClock, last_flush_time, shutdown_flag,
      flush_greenlet, mPhase, mLate>>>>

\* What an action of group g leaves alone: the variables of every other
\* specification's part of the state.
UnchangedOthers(g) ==
    /\ IF g = "task" THEN TRUE ELSE
        UNCHANGED <<pc, task, files, attempt, count, timer, upload_to_ac,
                  bodySize, posted, ok200, calls, outcome, route,
                  targetOutcome, retryVars>>
    /\ IF g = "rl" THEN TRUE ELSE
        UNCHANGED <<now, timestamps, admitted, cpc>>
    /\ IF g = "sys" THEN TRUE ELSE
        UNCHANGED <<fetcher, fetchTask, orphans, task_queue, qp, qpTask,
                  poolSize, poolAlive, poolMembers, exec, registry, expired,
                  thread_pool_size, restart_event, shutdown_event, main,
                  watchdog, nextTask, restarts, lateGetTask, limiterUsed,
                  sweepVictim, sweepDead, sweepMissed, queueMax, tasksLeft>>
    /\ IF g = "hm" THEN TRUE ELSE
        UNCHANGED <<hmNow, last_get_task_call, last_task_received,
                  start_time, hmRestartEvent, watchNext, lastCheck, refGet,
                  refRecv, restartAt, afterReset, checksSinceRestart>>
    /\ IF g = "gt" THEN TRUE ELSE
        UNCHANGED <<gtPc, thread_backoff_time, gtSleep, gtStatus, gtHadTask,
                  gtDue, gtWaited, gtChild, gtAttempt, gtLastGetTaskCall,
                  gtLastTaskReceived, gtPut>>
    /\ IF g = "rt" THEN TRUE ELSE
        UNCHANGED <<rtPc, expiryTime, rtNowMs, timeout>>
    /\ IF g = "cfg" THEN TRUE ELSE
        UNCHANGED <<config, cfgGc, cfgBefore, cfgRepeat, cfgApplied>>
    /\ IF g = "mt" THEN TRUE ELSE
        UNCHANGED <<mBuffer, mWritten, mNext, mClock, last_flush_time,
                  shutdown_flag, flush_greenlet, mPhase, mLate>>

(***************************************************************************)
(* Program constants.                                                      *)
(***************************************************************************)
max_file_size == 1024 * 500       \* max_size data that would be sent in payload
max_retry     == 3                \* update_task gives up when count > max_retry
max_retries   == 5                \* upload_response: attempts of upload-result

OutputFile    == "output_file.txt"
OutputFileZip == "output_file_zip.zip"

NetErrPrefix  == "Agent Side Error: Network error: "
ErrPrefix     == "Agent Side Error: Error: "
S3FailOutput  == "Error: failed to upload result to s3"

\* base64.b64encode: 4 output characters for every 3 input bytes, padded.
b64len(n) == 4 * ((n + 2) \div 3)

(***************************************************************************)
(* Bounded inputs.                                                         *)
(***************************************************************************)
\* Body sizes the target may return: empty, small, and around the boundary.
BodySizes == {0, 1, max_file_size - 1, max_file_size, max_file_size + 1,
              2 * max_file_size}
\* Status codes the target may answer.
TargetStatuses == {200, 404}
\* What the agent sees of a control-plane call.
CpResponses == {200, 429, 504, 400, 0}      \* 0: RequestException (no response)

(***************************************************************************)
(* The task dictionary. keys: the optional keys present in it.             *)
(***************************************************************************)
NewTask(fl) ==
    [taskId |-> "t1", fetchLogs |-> fl, keys |-> {},
     statusCode |-> 0, status |-> 0, output |-> "", outputLen |-> 0,
     responseBase64 |-> FALSE, responseZipped |-> FALSE, s3Url |-> ""]

Set(t, k, v) == [[t EXCEPT ![k] = v] EXCEPT !.keys = @ \cup {k}]

\* upload_response: retry_delay = 1; update_task: gevent.sleep(2).
initial_retry_delay == 1
put_retry_sleep     == 2

\* What a response says about retrying: whether its body contains "Too many
\* concurrent requests", and its X-Rate-Limit-Retry-After-Seconds header
\* (<<>> when the response has none).
NoHint == [marker |-> FALSE, retryAfter |-> <<>>]
RetryAfterValues == {<<>>, <<-5>>, <<30>>, <<90>>}
ResponseHints(r) ==
    IF r = 429
      THEN {[marker |-> FALSE, retryAfter |-> h] : h \in RetryAfterValues}
               \cup {[marker |-> TRUE, retryAfter |-> <<>>]}
      ELSE {NoHint}

InitRetry ==
    /\ lastResp = [ep |-> "", r |-> -1]
    /\ lastHint = NoHint
    /\ unthrottled = {}
    /\ putSent = 0 /\ uploadSent = 0
    /\ retry_delay = initial_retry_delay
    /\ putWait = 0 /\ uploadWait = 0

\* Optional[float]: the value of a timestamp that was never set.
None == -1

\* The parts of the state a specification does not use keep these values:
\* every group of variables but g's.
InitIdle(g) ==
    /\ IF g = "task" THEN TRUE ELSE
          /\ pc = "off" /\ task = NewTask(FALSE) /\ files = {} /\ attempt = 0
          /\ count = 0 /\ timer = "armed" /\ upload_to_ac = TRUE /\ bodySize = -1
          /\ posted = {} /\ ok200 = <<>> /\ calls = {} /\ outcome = ""
          /\ route = "" /\ targetOutcome = "" /\ InitRetry
    /\ IF g = "rl" THEN TRUE ELSE
          /\ now = 0 /\ timestamps = <<>> /\ admitted = <<>> /\ cpc = <<>>
    /\ IF g = "sys" THEN TRUE ELSE
          /\ fetcher = "off" /\ fetchTask = 0 /\ orphans = 0 /\ task_queue = <<>>
          /\ qp = "off" /\ qpTask = 0 /\ poolSize = 0 /\ poolAlive = FALSE
          /\ poolMembers = {}
          /\ exec = <<>> /\ registry = {} /\ expired = {} /\ thread_pool_size = 0
          /\ restart_event = FALSE /\ shutdown_event = FALSE /\ main = "off"
          /\ watchdog = "off" /\ nextTask = 0 /\ restarts = 0
          /\ lateGetTask = FALSE /\ limiterUsed = FALSE
          /\ sweepVictim = 0 /\ sweepDead = {} /\ sweepMissed = FALSE
          /\ queueMax = 0 /\ tasksLeft = 0
    /\ IF g = "hm" THEN TRUE ELSE
          /\ hmNow = 0 /\ last_get_task_call = None /\ last_task_received = None
          /\ start_time = 0 /\ hmRestartEvent = FALSE /\ watchNext = 0
          /\ lastCheck = <<>> /\ refGet = 0 /\ refRecv = 0 /\ restartAt = None
          /\ afterReset = <<>> /\ checksSinceRestart = 0
    /\ IF g = "gt" THEN TRUE ELSE
          /\ gtPc = "off" /\ thread_backoff_time = 0 /\ gtSleep = 0
          /\ gtStatus = [kind |-> "", code |-> 0]
          /\ gtHadTask = FALSE /\ gtDue = 0 /\ gtWaited = 0
          /\ gtChild = "none"
          /\ gtAttempt = 0 /\ gtLastGetTaskCall = 0
          /\ gtLastTaskReceived = 0 /\ gtPut = 0
    /\ IF g = "rt" THEN TRUE ELSE
          /\ rtPc = "off" /\ expiryTime = 0 /\ rtNowMs = 0 /\ timeout = 0
    /\ IF g = "cfg" THEN TRUE ELSE
          /\ config = <<>> /\ cfgGc = <<>> /\ cfgBefore = <<>>
          /\ cfgRepeat = FALSE /\ cfgApplied = 0
    /\ IF g = "mt" THEN TRUE ELSE
          /\ mBuffer = <<>> /\ mWritten = <<>> /\ mNext = 0 /\ mClock = 0
          /\ last_flush_time = 0 /\ shutdown_flag = FALSE /\ flush_greenlet = "off"
          /\ mPhase = "off" /\ mLate = {}

InitTask ==
    /\ pc = "queued"
    /\ task \in {NewTask(fl) : fl \in BOOLEAN}
    /\ files = {}
    /\ attempt = 0
    /\ count = 0
    /\ timer = "armed"
    /\ upload_to_ac \in BOOLEAN
    /\ bodySize = -1
    /\ posted = {}
    /\ ok200 = <<>>
    /\ calls = {}
    /\ outcome = ""
    /\ route = ""
    /\ targetOutcome = ""
    /\ InitRetry
    /\ InitIdle("task")

(***************************************************************************)
(* process_task: the routing decision and its exits.                       *)
(***************************************************************************)
\* Faulty variants of is_s3_upload: a threshold twice too high; a boundary
\* off by one.
is_s3_upload_2x(size) == size > 2 * max_file_size
is_s3_upload_ge(size) == size >= max_file_size

\* is_s3_upload: bool = file_size > max_file_size
is_s3_upload(size) == size > max_file_size

\* Faulty variant: the inline branch's "return task" is missing.
reaches_upload_response_always(size) == TRUE

\* The inline branch ends in "return task": upload_response is reached only
\* by a body for which the branch was not taken.
reaches_upload_response(size) == is_s3_upload(size)

\* Faulty variant: the zip sibling is not unlinked.
CleanupFiles_KeepZip(fs) == fs \ {OutputFile}

\* The finally clause of process_task: both temp files are unlinked.
CleanupFiles(fs) == (fs \ {OutputFile}) \ {OutputFileZip}

\* The yield points inside process_task's try block.
InProcessTask(p) ==
    p \in {"logs_throttle", "logs_post", "target", "up_throttle", "up_post",
           "up_sleep429", "up_sleep_exc", "s3url_throttle", "s3url_get", "s3_put"}
InUpdateTask(p) == p \in {"put_throttle", "put_post", "put_sleep"}
YieldPoint(p) == InProcessTask(p) \/ InUpdateTask(p)

\* process_task returns t (finally runs), process_task_async calls
\* update_task(t) with count = 0, which waits for the rate limiter.
ReturnToUpdateTask(t, fs) ==
    /\ task' = t
    /\ files' = CleanupFiles(fs)
    /\ count' = 0
    /\ pc' = "put_throttle"
    /\ outcome' = outcome

\* An exception reaches process_task's except clauses: the task becomes an
\* error carrier and is returned.
ExceptToUpdateTask(t, fs, prefix) ==
    ReturnToUpdateTask(Set(Set(t, "statusCode", 500), "output", prefix), fs)

\* process_task returns None; update_task(None) returns at once.
ReturnNone(fs) ==
    /\ task' = task
    /\ files' = CleanupFiles(fs)
    /\ count' = count
    /\ pc' = "done"
    /\ outcome' = "returned"

\* Faulty variant: update_task gives up two calls later.
retry_count_exceeds_late(c) == c > max_retry + 2

\* update_task: "if count > max_retry: return".
retry_count_exceeds(c) == c > max_retry

\* update_task(task, count + 1): gives up when the count exceeds max_retry.
RetryUpdateTask ==
    /\ count' = count + 1
    /\ pc' = IF retry_count_exceeds(count + 1) THEN "done" ELSE "put_throttle"
    /\ outcome' = IF retry_count_exceeds(count + 1) THEN "returned" ELSE outcome
    /\ UNCHANGED <<task, files>>

\* spawn_with_timeout's wrapped(): the temp files are created and
\* process_task runs to its first yield point.
StartTask ==
    /\ pc = "queued"
    /\ \/ /\ task.fetchLogs                      \* check_for_logs_fetch
          /\ \/ /\ pc' = "logs_throttle"
                /\ task' = Set(task, "responseZipped", TRUE)
                /\ files' = {OutputFile, OutputFileZip}
                /\ UNCHANGED <<count, outcome>>
                /\ calls' = calls
             \/ /\ ExceptToUpdateTask(task, {OutputFile, OutputFileZip}, ErrPrefix)
                /\ calls' = calls                \* make_archive raised
       \/ /\ ~task.fetchLogs
          /\ pc' = "target"
          /\ files' = {OutputFile, OutputFileZip}
          /\ calls' = calls \cup {"target"}
          /\ UNCHANGED <<task, count, outcome>>
    /\ UNCHANGED <<attempt, timer, upload_to_ac, bodySize, posted, ok200>>
    /\ UNCHANGED <<route, targetOutcome>>
    /\ UNCHANGED retryVars
    /\ UnchangedOthers("task")

\* The fields process_task sets for a body that is sent inline.
InlineFields(t, size) ==
    IF size = 0 THEN t
    ELSE [Set(Set(t, "responseBase64", TRUE), "output", "<base64>")
            EXCEPT !.outputLen = b64len(size)]

\* The target answered and its body was streamed to the temp file.
TargetResponse ==
    /\ pc = "target"
    /\ \E st \in TargetStatuses, size \in BodySizes :
        LET t1 == Set(task, "statusCode", st)
            t2 == IF is_s3_upload(size) THEN t1 ELSE InlineFields(t1, size)
        IN  /\ bodySize' = size
            /\ route' = IF size = 0 \/ ~reaches_upload_response(size)
                        THEN "inline" ELSE "upload"
            /\ IF size = 0 \/ ~reaches_upload_response(size)
               THEN /\ ReturnToUpdateTask(t2, files)
                    /\ attempt' = attempt
               ELSE IF upload_to_ac
               THEN \E success \in BOOLEAN :       \* zip_response
                    /\ task' = Set(t2, "responseZipped", success)
                    /\ attempt' = 1
                    /\ pc' = "up_throttle"
                    /\ UNCHANGED <<files, count, outcome>>
               ELSE /\ task' = t2
                    /\ pc' = "s3url_throttle"
                    /\ UNCHANGED <<files, count, outcome, attempt>>
    /\ UNCHANGED <<timer, upload_to_ac, posted, ok200, calls>>
    /\ targetOutcome' = "response"
    /\ UNCHANGED retryVars
    /\ UnchangedOthers("task")

\* requests.request raised a RequestException (connect, TLS, DNS, read).
TargetRequestException ==
    /\ pc = "target"
    /\ ExceptToUpdateTask(task, files, NetErrPrefix)
    /\ UNCHANGED <<attempt, timer, upload_to_ac, bodySize, posted, ok200, calls>>
    /\ targetOutcome' = "neterr"
    /\ UNCHANGED retryVars
    /\ route' = route
    /\ UnchangedOthers("task")

\* Any other exception in the try block (bad timeout value, file error).
TargetUnexpectedException ==
    /\ pc = "target"
    /\ ExceptToUpdateTask(task, files, ErrPrefix)
    /\ UNCHANGED <<attempt, timer, upload_to_ac, bodySize, posted, ok200, calls>>
    /\ targetOutcome' = "exception"
    /\ UNCHANGED retryVars
    /\ route' = route
    /\ UnchangedOthers("task")

(***************************************************************************)
(* The control plane as the agent sees it. A call that ends in a           *)
(* RequestException (response 0) or that the greenlet abandons while it is *)
(* in flight may still have been received and answered by the server: the  *)
(* read timeout says nothing about what the server did.                    *)
(***************************************************************************)
Answered200(ep, r, srv) ==
    IF r = 200 \/ (r = 0 /\ srv) THEN Append(ok200, ep) ELSE ok200

CpOutcomes == {<<r, srv>> \in CpResponses \X BOOLEAN : srv => r = 0}

\* Faulty variant: throttle() is called before the first attempt only.
throttles_first_attempt(ep, n) == n = 1

\* rate_limiter.throttle() is called before the n-th attempt of a call to the
\* endpoint ep: it is the statement before each of the requests, inside the
\* retry loop of upload_response and the recursion of update_task.
throttles(ep, n) == TRUE

\* A call to ep leaves the throttle() it waited in and is sent.
Admitted(ep, n) == IF throttles(ep, n) THEN unthrottled ELSE unthrottled \cup {ep}

(***************************************************************************)
(* check_for_logs_fetch: the upload-logs call.                             *)
(***************************************************************************)
LogsSend ==
    /\ pc = "logs_throttle"
    /\ pc' = "logs_post"
    /\ calls' = calls \cup {"upload-logs"}
    /\ unthrottled' = Admitted("upload-logs", 1)
    /\ UNCHANGED <<task, files, attempt, count, timer, upload_to_ac, bodySize,
                   posted, ok200, outcome>>
    /\ UNCHANGED <<route, targetOutcome>>
    /\ UNCHANGED <<lastResp, lastHint, putSent, uploadSent, retry_delay, putWait,
                   uploadWait>>
    /\ UnchangedOthers("task")

LogsResponse ==
    /\ pc = "logs_post"
    /\ \E r \in CpResponses :
        IF r = 0
        THEN ExceptToUpdateTask(task, files, NetErrPrefix)  \* raise e
        ELSE ReturnNone(files)            \* returns True whatever the status
    /\ UNCHANGED <<attempt, timer, upload_to_ac, bodySize, posted, ok200, calls>>
    /\ UNCHANGED <<route, targetOutcome>>
    /\ UNCHANGED retryVars
    /\ UnchangedOthers("task")

(***************************************************************************)
(* upload_response, upload_to_ac: the upload-result loop.                  *)
(***************************************************************************)
\* An exception inside the loop's try: retried after a sleep, or re-raised
\* by the last attempt into process_task's except clauses.
UploadAttemptFailed(prefix) ==
    IF attempt < max_retries
    THEN /\ pc' = "up_sleep_exc"
         /\ UNCHANGED <<task, files, count, outcome>>
    ELSE ExceptToUpdateTask(task, files, prefix)

UploadResultSend ==
    /\ pc = "up_throttle"
    /\ pc' = "up_post"
    /\ posted' = posted \cup {[ep |-> "upload-result", result |-> task]}
    /\ calls' = calls \cup {"upload-result"}
    /\ uploadSent' = uploadSent + 1
    /\ unthrottled' = Admitted("upload-result", attempt)
    /\ UNCHANGED <<task, files, attempt, count, timer, upload_to_ac, bodySize,
                   ok200, outcome>>
    /\ UNCHANGED <<route, targetOutcome>>
    /\ UNCHANGED <<lastResp, lastHint, putSent, retry_delay, putWait, uploadWait>>
    /\ UnchangedOthers("task")

UploadResultResponse ==
    /\ pc = "up_post"
    /\ \E o \in CpOutcomes :
        LET r == o[1] IN
        /\ ok200' = Answered200("upload-result", r, o[2])
        /\ lastResp' = [ep |-> "upload-result", r |-> r]
        /\ lastHint' \in ResponseHints(r)
        /\ IF r = 200
           THEN ReturnNone(files)
           ELSE IF r = 429 /\ attempt < max_retries
           THEN /\ pc' = "up_sleep429"
                /\ UNCHANGED <<task, files, count, outcome>>
           ELSE UploadAttemptFailed(NetErrPrefix)  \* raise_for_status, or no response
    /\ UNCHANGED <<attempt, timer, upload_to_ac, bodySize, posted, calls>>
    /\ UNCHANGED <<route, targetOutcome>>
    /\ UNCHANGED <<unthrottled, putSent, uploadSent, retry_delay, putWait, uploadWait>>
    /\ UnchangedOthers("task")

\* time.sleep(retry_delay) returns; retry_delay *= 2; the next attempt.
UploadSleepDone ==
    /\ pc \in {"up_sleep429", "up_sleep_exc"}
    /\ attempt' = attempt + 1
    /\ pc' = "up_throttle"
    /\ uploadWait' = retry_delay
    /\ retry_delay' = retry_delay * 2
    /\ UNCHANGED <<task, files, count, timer, upload_to_ac, bodySize, posted,
                   ok200, calls, outcome>>
    /\ UNCHANGED <<route, targetOutcome>>
    /\ UNCHANGED <<lastResp, lastHint, unthrottled, putSent, uploadSent, putWait>>
    /\ UnchangedOthers("task")

(***************************************************************************)
(* upload_response, not upload_to_ac: get_s3_upload_url and upload_s3.     *)
(***************************************************************************)
S3Failed(t) == Set(Set(t, "status", 500), "output", S3FailOutput)

S3UrlSend ==
    /\ pc = "s3url_throttle"
    /\ pc' = "s3url_get"
    /\ calls' = calls \cup {"upload-url"}
    /\ unthrottled' = Admitted("upload-url", 1)
    /\ UNCHANGED <<task, files, attempt, count, timer, upload_to_ac, bodySize,
                   posted, ok200, outcome>>
    /\ UNCHANGED <<route, targetOutcome>>
    /\ UNCHANGED <<lastResp, lastHint, putSent, uploadSent, retry_delay, putWait,
                   uploadWait>>
    /\ UnchangedOthers("task")

S3UrlResponse ==
    /\ pc = "s3url_get"
    /\ \E r \in CpResponses, data \in BOOLEAN :
        IF r = 200 /\ data
        THEN /\ pc' = "s3_put"                   \* upload_s3 follows at once
             /\ calls' = calls \cup {"s3-put"}
             /\ UNCHANGED <<task, files, count, outcome>>
        ELSE /\ ReturnToUpdateTask(S3Failed(task), files)
             /\ calls' = calls
    /\ UNCHANGED <<attempt, timer, upload_to_ac, bodySize, posted, ok200>>
    /\ UNCHANGED <<route, targetOutcome>>
    /\ UNCHANGED retryVars
    /\ UnchangedOthers("task")

S3PutResponse ==
    /\ pc = "s3_put"
    /\ \E okput \in BOOLEAN :
        IF okput
        THEN ReturnToUpdateTask(Set(task, "s3Url", "getUrl"), files)
        ELSE ExceptToUpdateTask(task, files, NetErrPrefix)
    /\ UNCHANGED <<attempt, timer, upload_to_ac, bodySize, posted, ok200, calls>>
    /\ UNCHANGED <<route, targetOutcome>>
    /\ UNCHANGED retryVars
    /\ UnchangedOthers("task")

(***************************************************************************)
(* update_task: put-result.                                                *)
(***************************************************************************)
PutResultSend ==
    /\ pc = "put_throttle"
    /\ pc' = "put_post"
    /\ posted' = posted \cup {[ep |-> "put-result", result |-> task]}
    /\ calls' = calls \cup {"put-result"}
    /\ putSent' = putSent + 1
    /\ unthrottled' = Admitted("put-result", count + 1)
    /\ UNCHANGED <<task, files, attempt, count, timer, upload_to_ac, bodySize,
                   ok200, outcome>>
    /\ UNCHANGED <<route, targetOutcome>>
    /\ UNCHANGED <<lastResp, lastHint, uploadSent, retry_delay, putWait, uploadWait>>
    /\ UnchangedOthers("task")

\* Faulty variant: every status but 200 is retried.
is_retry_status_not200(r) == r # 200

\* update_task: "elif status_code == 429 or status_code == 504".
is_retry_status(r) == r = 429 \/ r = 504

PutResultResponse ==
    /\ pc = "put_post"
    /\ \E o \in CpOutcomes :
        LET r == o[1] IN
        /\ ok200' = Answered200("put-result", r, o[2])
        /\ lastResp' = [ep |-> "put-result", r |-> r]
        /\ lastHint' \in ResponseHints(r)
        /\ IF r = 0
           THEN /\ RetryUpdateTask                \* RequestException: no sleep
                /\ putWait' = 0
           ELSE IF r # 200 /\ is_retry_status(r)
           THEN /\ pc' = "put_sleep"             \* gevent.sleep(2)
                /\ UNCHANGED <<task, files, count, outcome, putWait>>
           ELSE /\ pc' = "done"                  \* updated, or logged and dropped
                /\ outcome' = "returned"
                /\ UNCHANGED <<task, files, count, putWait>>
    /\ UNCHANGED <<attempt, timer, upload_to_ac, bodySize, posted, calls>>
    /\ UNCHANGED <<route, targetOutcome>>
    /\ UNCHANGED <<unthrottled, putSent, uploadSent, retry_delay, uploadWait>>
    /\ UnchangedOthers("task")

\* gevent.sleep(2) returns; update_task(task, count + 1).
PutResultSleepDone ==
    /\ pc = "put_sleep"
    /\ RetryUpdateTask
    /\ putWait' = put_retry_sleep
    /\ UNCHANGED <<attempt, timer, upload_to_ac, bodySize, posted, ok200, calls>>
    /\ UNCHANGED <<route, targetOutcome>>
    /\ UNCHANGED <<lastResp, lastHint, unthrottled, putSent, uploadSent, retry_delay, uploadWait>>
    /\ UnchangedOthers("task")

(***************************************************************************)
(* Exceptions thrown into the greenlet at a yield point.                   *)
(***************************************************************************)
\* A request the greenlet abandons in flight may or may not be answered.
AbandonInFlight ==
    IF pc \in {"up_post", "put_post"}
    THEN \E srv \in BOOLEAN :
            ok200' = Answered200(IF pc = "up_post" THEN "upload-result"
                                 ELSE "put-result", 0, srv)
    ELSE ok200' = ok200

\* GreenletTimeoutError (an Exception) arrives at the current yield point and
\* is handled by the innermost enclosing except clause.
OnGreenletTimeoutError ==
    /\ YieldPoint(pc)
    /\ AbandonInFlight
    /\ CASE pc \in {"logs_throttle", "logs_post", "target", "up_sleep_exc", "s3_put"} ->
                ExceptToUpdateTask(task, files, ErrPrefix)
         [] pc \in {"up_throttle", "up_post", "up_sleep429"} ->
                UploadAttemptFailed(ErrPrefix)       \* except Exception in the loop
         [] pc \in {"s3url_throttle", "s3url_get"} ->
                ReturnToUpdateTask(S3Failed(task), files)  \* returns None, None
         [] InUpdateTask(pc) ->                       \* process_task_async logs it
                /\ pc' = "done"
                /\ outcome' = "swallowed"
                /\ UNCHANGED <<task, files, count>>
    /\ UNCHANGED <<attempt, upload_to_ac, bodySize, posted, calls>>
    /\ UNCHANGED <<route, targetOutcome>>
    /\ UNCHANGED retryVars
    /\ UnchangedOthers("task")

\* spawn_with_timeout: the Timeout(timeout) around the task fires, once.
DeadlineExpires ==
    /\ timer = "armed"
    /\ timer' = "fired"
    /\ OnGreenletTimeoutError

\* cleanup_dead_greenlets: an execution still registered after its deadline is
\* killed with GreenletTimeoutError and unregistered.
SweepKill ==
    /\ timer = "fired"
    /\ timer' = "swept"
    /\ OnGreenletTimeoutError

\* greenlet.kill() by GreenletManager.shutdown or pool.kill (restart, process
\* shutdown): GreenletExit passes every except Exception; finally clauses run.
Kill ==
    /\ YieldPoint(pc)
    /\ AbandonInFlight
    /\ pc' = "done"
    /\ outcome' = "killed"
    /\ files' = IF InProcessTask(pc) THEN CleanupFiles(files) ELSE files
    /\ UNCHANGED <<task, attempt, count, timer, upload_to_ac, bodySize, posted, calls>>
    /\ UNCHANGED <<route, targetOutcome>>
    /\ UNCHANGED retryVars
    /\ UnchangedOthers("task")

NextTask ==
    \/ StartTask
    \/ TargetResponse
    \/ TargetRequestException
    \/ TargetUnexpectedException
    \/ LogsSend
    \/ LogsResponse
    \/ UploadResultSend
    \/ UploadResultResponse
    \/ UploadSleepDone
    \/ S3UrlSend
    \/ S3UrlResponse
    \/ S3PutResponse
    \/ PutResultSend
    \/ PutResultResponse
    \/ PutResultSleepDone
    \/ DeadlineExpires
    \/ SweepKill
    \/ Kill

SpecTask == InitTask /\ [][NextTask]_vars

(***************************************************************************)
(* The RateLimiter. One tick of the clock is the 0.5 s of throttle's sleep. *)
(***************************************************************************)
RequestLimit == 2      \* RateLimiter.request_limit
TimeWindow   == 2      \* RateLimiter.time_window, in ticks
MaxTime      == 5      \* the clock stops here
NumCallers   == 2      \* greenlets that call the limiter
Callers      == 1..NumCallers

InitRL ==
    /\ now = 0
    /\ timestamps = <<>>
    /\ admitted = <<>>
    /\ cpc = [c \in Callers |-> "idle"]
    /\ InitIdle("rl")

\* Faulty variant: the oldest timestamp is dropped as soon as its age reaches
\* the window.
RECURSIVE popleft_expired_le(_, _)
popleft_expired_le(ts, t) ==
    IF ts # <<>> /\ Head(ts) <= t - TimeWindow
    THEN popleft_expired_le(Tail(ts), t) ELSE ts

\* while self.timestamps and self.timestamps[0] < current_time - self.time_window:
\*     self.timestamps.popleft()
RECURSIVE popleft_expired(_, _)
popleft_expired(ts, t) ==
    IF ts # <<>> /\ Head(ts) < t - TimeWindow
    THEN popleft_expired(Tail(ts), t) ELSE ts

\* allow_request, under the lock: the answer, and the deque afterwards.
allow_request_result(ts, t) == Len(popleft_expired(ts, t)) < RequestLimit
allow_request_deque(ts, t) ==
    IF allow_request_result(ts, t)
    THEN Append(popleft_expired(ts, t), t) ELSE popleft_expired(ts, t)

CallAllowRequest ==
    /\ timestamps' = allow_request_deque(timestamps, now)
    /\ admitted' = IF allow_request_result(timestamps, now)
                   THEN Append(admitted, now) ELSE admitted

\* A caller uses the non-blocking allow_request once.
AllowRequest(c) ==
    /\ cpc[c] = "idle"
    /\ CallAllowRequest
    /\ UNCHANGED <<now, cpc>>
    /\ UnchangedOthers("rl")

\* A caller enters throttle().
ThrottleBegin(c) ==
    /\ cpc[c] = "idle"
    /\ cpc' = [cpc EXCEPT ![c] = "poll"]
    /\ UNCHANGED <<now, timestamps, admitted>>
    /\ UnchangedOthers("rl")

\* throttle(): while not self.allow_request(): gevent.sleep(0.5)
ThrottlePoll(c) ==
    /\ cpc[c] = "poll"
    /\ CallAllowRequest
    /\ cpc' = [cpc EXCEPT ![c] = IF allow_request_result(timestamps, now)
                                 THEN "idle" ELSE "sleep"]
    /\ UNCHANGED now
    /\ UnchangedOthers("rl")

\* The clock advances by one tick; the sleepers wake up.
Tick ==
    /\ now < MaxTime
    /\ now' = now + 1
    /\ cpc' = [c \in Callers |-> IF cpc[c] = "sleep" THEN "poll" ELSE cpc[c]]
    /\ UNCHANGED <<timestamps, admitted>>
    /\ UnchangedOthers("rl")

NextRL ==
    \/ \E c \in Callers : AllowRequest(c)
    \/ \E c \in Callers : ThrottleBegin(c)
    \/ \E c \in Callers : ThrottlePoll(c)
    \/ Tick

SpecRL == InitRL /\ [][NextRL]_vars

\* Time without end: the clock advances once every caller that is due has
\* polled (a sleeper polls every 0.5 s), and the sleepers wake up.  Once the
\* clock has reached MaxTime the times are kept relative to it: every
\* timestamp moves one tick into the past, no further than just outside the
\* window, where allow_request drops it whatever its age.
TickOn ==
    /\ \A c \in Callers : cpc[c] # "poll"
    /\ LET floor == MaxTime - TimeWindow - 1
           back(ts) == [i \in DOMAIN ts |->
                           IF ts[i] - 1 < floor THEN floor ELSE ts[i] - 1]
           recent(t) == t > floor
       IN  IF now < MaxTime
           THEN /\ now' = now + 1
                /\ UNCHANGED <<timestamps, admitted>>
           ELSE /\ now' = now
                /\ timestamps' = back(timestamps)
                /\ admitted' = back(SelectSeq(admitted, recent))
    /\ cpc' = [c \in Callers |-> IF cpc[c] = "sleep" THEN "poll" ELSE cpc[c]]
    /\ UnchangedOthers("rl")

\* The limiter with time advancing for ever and every caller in throttle()
\* polling when it is due.
SpecRLLive ==
    /\ InitRL
    /\ [][\/ \E c \in Callers : AllowRequest(c)
          \/ \E c \in Callers : ThrottleBegin(c)
          \/ \E c \in Callers : ThrottlePoll(c)
          \/ TickOn]_vars
    /\ WF_vars(TickOn)
    /\ \A c \in Callers : WF_vars(ThrottlePoll(c))

\* C39: every caller waiting in throttle() is eventually admitted.
C39_NoStarvation ==
    \A c \in Callers : (cpc[c] \in {"poll", "sleep"}) ~> (cpc[c] = "idle")

\* The admissions whose times fall in the window [s, s + TimeWindow].
AdmissionsIn(s) ==
    Cardinality({i \in DOMAIN admitted :
                    admitted[i] >= s /\ admitted[i] <= s + TimeWindow})

\* C5: in any window of length time_window, at most request_limit calls of
\* allow_request returned True.
C5_WindowBound == \A s \in 0..MaxTime : AdmissionsIn(s) <= RequestLimit

\* C5 witness: the limiter is full, has turned a caller away, and has admitted
\* more than request_limit calls over the run.
C5_Witness ==
    /\ Len(timestamps) = RequestLimit
    /\ \E c \in Callers : cpc[c] = "sleep"
    /\ Len(admitted) > RequestLimit

(***************************************************************************)
(* Claims about one task execution (checked under SpecTask).               *)
(***************************************************************************)
ResultPosts == {p \in posted : p.ep \in {"put-result", "upload-result"}}
UploadCalls == {"upload-result", "upload-url", "s3-put"}
ErrorOutputs == {NetErrPrefix, ErrPrefix, S3FailOutput}

\* C1: every task whose execution a worker began has had a TaskResult posted
\* (put-result or upload-result) by the time the execution has ended. Stated
\* for the cases the claim lists (success, deadline, agent-side error): an
\* execution killed by a restart and the fetch-logs task are left out.
C1_ResultPostedWhenEnded ==
    (pc = "done" /\ outcome # "killed" /\ ~task.fetchLogs) => ResultPosts # {}

\* C2: the control plane never answers 200 to two result posts of one taskId.
C2_AtMostOne200 == Len(ok200) <= 1

\* C6: once process_task has returned or been terminated, neither temp file
\* of the task exists.
C6_TempFilesGone == (pc = "done" \/ InUpdateTask(pc)) => files = {}

\* C6 witness: an execution killed in the middle of an artifact upload.
C6_Witness ==
    pc = "done" /\ outcome = "killed" /\ route = "upload" /\ timer = "fired"

\* C7 (as claimed): every TaskResult posted for a body over 500 KiB has no
\* output field, and its s3Url is set or an upload-result was answered 200.
C7_LargeBodyNoOutput ==
    (pc = "done" /\ outcome = "returned" /\ timer = "armed" /\ bodySize > 512000) =>
        \A p \in ResultPosts :
            /\ "output" \notin p.result.keys
            /\ \/ "s3Url" \in p.result.keys
               \/ \E i \in 1..Len(ok200) : ok200[i] = "upload-result"

\* C7 (amended): a TaskResult posted for a body over 500 KiB never carries the
\* body; without an output field it has s3Url set or is the task part of an
\* upload-result call; with one it is an error carrier.
C7_LargeBodyNeverInline ==
    bodySize > 512000 =>
        \A p \in ResultPosts :
            /\ ~p.result.responseBase64
            /\ "output" \in p.result.keys => p.result.output \in ErrorOutputs
            /\ "output" \notin p.result.keys =>
                   ("s3Url" \in p.result.keys \/ p.ep = "upload-result")

\* C7 witness: a large body whose result was posted with s3Url set.
C7_Witness ==
    /\ bodySize > 512000
    /\ \E p \in ResultPosts : p.ep = "put-result" /\ "s3Url" \in p.result.keys

InlineCarrier(t) ==
    t.responseBase64 /\ "output" \in t.keys /\ t.output = "<base64>"

\* C8 (as claimed): a body of at most 512000 bytes is returned inline with
\* base64 output and responseBase64 true and no upload call; a body of 512001
\* bytes or more takes the upload path and is never sent inline.
C8_RoutesBySize ==
    bodySize >= 0 =>
        IF bodySize <= 512000
        THEN route = "inline" /\ InlineCarrier(task) /\ calls \cap UploadCalls = {}
        ELSE /\ route = "upload"
             /\ \A p \in ResultPosts : ~p.result.responseBase64

\* C8 (amended): as claimed for a non-empty body; an empty body is returned on
\* the inline path with no output field and no responseBase64.
C8_RoutesBySizeNonEmpty ==
    bodySize >= 0 =>
        IF bodySize = 0
        THEN /\ route = "inline" /\ calls \cap UploadCalls = {}
             /\ "output" \notin task.keys /\ ~task.responseBase64
        ELSE IF bodySize <= 512000
        THEN /\ route = "inline" /\ InlineCarrier(task)
             /\ task.outputLen = b64len(bodySize)
             /\ calls \cap UploadCalls = {}
        ELSE /\ route = "upload"
             /\ ~task.responseBase64
             /\ \A p \in ResultPosts : ~p.result.responseBase64

\* C8 witness: a body of exactly 512000 bytes posted inline.
C8_Witness ==
    /\ bodySize = 512000
    /\ \E p \in posted : p.ep = "put-result" /\ InlineCarrier(p.result)

\* C9: no posted TaskResult, and no task dictionary, carries both
\* responseBase64 and s3Url.
C9_CarriersExclusive ==
    /\ ~(task.responseBase64 /\ "s3Url" \in task.keys)
    /\ \A p \in posted : ~(p.result.responseBase64 /\ "s3Url" \in p.result.keys)

\* C9 witness: results posted with each of the two carriers exist; here the
\* object-storage one.
C9_Witness ==
    \E p \in posted : "s3Url" \in p.result.keys /\ ~p.result.responseBase64

\* C10: when the target request failed with a network error, a TaskResult with
\* statusCode 500 and the network-error prefix has been posted through
\* put-result by the time the execution has ended (not counting a kill).
C10_NetworkErrorPosted ==
    (pc = "done" /\ targetOutcome = "neterr" /\ outcome # "killed") =>
        \E p \in posted :
            /\ p.ep = "put-result"
            /\ p.result.statusCode = 500
            /\ p.result.output = NetErrPrefix

\* C11: a posted result whose output begins "Agent Side Error: Network
\* error: " was produced by a failed request to the target, never by a failed
\* upload-result, upload-url or object-storage PUT.
C11_NetworkPrefixOnlyForTarget ==
    ~task.fetchLogs =>
        \A p \in posted :
            ("output" \in p.result.keys /\ p.result.output = NetErrPrefix)
                => targetOutcome = "neterr"

\* C25: on the object-storage path a TaskResult posted through put-result
\* either has s3Url equal to getUrl, the PUT having been made, or (the upload
\* URL or the PUT having failed) has statusCode 500 and the output "Error:
\* failed to upload result to s3".
C25_S3ArtifactResult ==
    (route = "upload" /\ ~upload_to_ac /\ timer = "armed") =>
        \A p \in posted :
            p.ep = "put-result" =>
                IF "s3Url" \in p.result.keys
                  THEN p.result.s3Url = "getUrl" /\ "s3-put" \in calls
                  ELSE /\ p.result.statusCode = 500
                       /\ p.result.output = S3FailOutput

\* C26: for a fetch-logs task the agent calls upload-logs and never
\* put-result or upload-result, whatever upload-logs answers and whether or
\* not the upload fails.
C26_FetchLogsNoResultPost ==
    (task.fetchLogs /\ timer = "armed") =>
        /\ "put-result" \notin calls
        /\ "upload-result" \notin calls
        /\ (pc = "done" /\ outcome = "returned") => "upload-logs" \in calls

C18_RetryOnly429Or504 ==
    /\ pc = "put_sleep" =>
           (lastResp.ep = "put-result" /\ lastResp.r \in {429, 504})
    /\ (pc = "put_throttle" /\ count > 0) =>
           (lastResp.ep = "put-result" /\ lastResp.r \in {429, 504, 0})
    /\ (lastResp.ep = "put-result" /\ lastResp.r \notin {429, 504, 0}) =>
           (pc = "done" /\ outcome = "returned")

\* C18 witness: a put-result retried once, then answered with another status
\* and dropped.
C18_Witness ==
    /\ pc = "done"
    /\ putSent = 2
    /\ lastResp = [ep |-> "put-result", r |-> 400]

\* C19: for one TaskResult at most 5 put-result requests and at most 5
\* upload-result requests are sent.
C19_AtMostFiveAttempts == putSent <= 5 /\ uploadSent <= 5

\* C19 witness: the upload loop used up its attempts and raised, and
\* update_task then gave up on the error result.
C19_Witness ==
    /\ pc = "done" /\ outcome = "returned"
    /\ uploadSent = max_retries
    /\ putSent = max_retry + 1
    /\ lastResp.r # 200

\* C21: a put-result or upload-result answered 429 is retried after the
\* delay its X-Rate-Limit-Retry-After-Seconds header gives (negative: 2 s,
\* above 60: 60 s), and after a delay within [0, 10) s when its body has the
\* "Too many concurrent requests" marker.
C21_RetryDelayFrom429 ==
    LET RetryAfterDelay(h) ==
            IF h[1] < 0 THEN 2 ELSE IF h[1] > 60 THEN 60 ELSE h[1]
        HonoursHint(w) ==
            /\ lastHint.retryAfter # <<>> =>
                   w = RetryAfterDelay(lastHint.retryAfter)
            /\ lastHint.marker => w \in 0..9
    IN  /\ (/\ pc = "put_throttle"
             /\ count > 0
             /\ lastResp = [ep |-> "put-result", r |-> 429]) => HonoursHint(putWait)
        /\ (/\ pc = "up_throttle"
             /\ attempt > 1
             /\ lastResp = [ep |-> "upload-result", r |-> 429]) => HonoursHint(uploadWait)

\* C20: the wait before the k-th retry of a put-result or upload-result call
\* is 2^(k-1) seconds and never more than 60.
C20_RetryWaits ==
    /\ (pc = "put_throttle" /\ count > 0) => putWait = 2 ^ (count - 1)
    /\ (pc = "up_throttle" /\ attempt > 1) => uploadWait = 2 ^ (attempt - 2)
    /\ putWait <= 60 /\ uploadWait <= 60

(***************************************************************************)
(* The WatchdogWorker: fetcher, handoff queue, queue processor, pool,      *)
(* watchdog, restart and shutdown.  An execution is reduced to where its   *)
(* greenlet is: in the target request, in rate_limiter.throttle() ahead of *)
(* a control-plane call (or asleep between two), or in a control-plane     *)
(* call.                                                                   *)
(***************************************************************************)
PoolSize    == 1   \* --poolSize: the least thread_pool_size at start
MaxTasks    == 3   \* tasks the control plane hands out
MaxRestarts == 1   \* restarts the watchdog asks for
StartPoolSizes  == PoolSize..(PoolSize + 1)   \* --poolSize values the worker starts with
GlobalPoolSizes == {1, 2}     \* poolSize values a globalConfig carries
default_pool_size == 5        \* global_config.get("poolSize", 5)

Tasks   == 1..(MaxTasks + 1)
Running == {"target", "throttle", "cp"}

InFlight == {t \in Tasks : exec[t] \in Running}
CPInFlight  == (IF fetcher = "fetching" THEN 1 ELSE 0) + orphans
               + Cardinality({t \in Tasks : exec[t] = "cp"})

\* Faulty variant: a handoff queue with room for one task only.
QueueMaxSize_one(n) == 1

\* Queue(maxsize=config_dict['thread_pool_size'] * 2), fixed at construction.
QueueMaxSize(n) == n * 2

InitSysWith(sizes, n) ==
    /\ fetcher = "throttle" /\ fetchTask = 0 /\ orphans = 0
    /\ task_queue = <<>>
    /\ qp = "get" /\ qpTask = 0
    /\ poolSize \in sizes /\ poolAlive = TRUE /\ poolMembers = {}
    /\ exec = [t \in Tasks |-> "new"]
    /\ registry = {} /\ expired = {}
    /\ thread_pool_size = poolSize
    /\ queueMax = QueueMaxSize(poolSize)
    /\ restart_event = FALSE /\ shutdown_event = FALSE
    /\ main = "loop" /\ watchdog = "alive"
    /\ nextTask = 1 /\ restarts = 0 /\ tasksLeft = n
    /\ lateGetTask = FALSE /\ limiterUsed = FALSE
    /\ sweepVictim = 0 /\ sweepDead = {} /\ sweepMissed = FALSE
    /\ InitIdle("sys")

\* The worker started with --poolSize PoolSize.
InitSys == InitSysWith({PoolSize}, MaxTasks)

\* "while not self._shutdown_event.is_set()" at the top of a greenlet's loop.
LoopTop(st) == IF shutdown_event THEN "stopped" ELSE st

\* _create_pool: Pool(size=config_dict['thread_pool_size']).
create_pool_size(n) == n

\* pool.kill(): every greenlet in the pool.
pool_kill(members) == members

\* Faulty variant: a spawn that never waits for a slot.
pool_free_always(members, size) == TRUE

\* Pool.spawn blocks until the pool's semaphore has a free slot.
pool_free(members, size) == Cardinality(members) < size

\* A task's globalConfig: absent, or present with or without a poolSize key
\* (poolSize 0 stands for "no such key").
GlobalConfigs ==
    {[present |-> FALSE, poolSize |-> 0]}
    \cup {[present |-> TRUE, poolSize |-> n] : n \in {0} \cup GlobalPoolSizes}

\* update_agent_config: thread_pool_size := globalConfig.poolSize, 5 if absent.
update_agent_config(gc, cur) ==
    IF ~gc.present THEN cur
    ELSE IF gc.poolSize = 0 THEN default_pool_size
    ELSE gc.poolSize

\* _get_task_loop: throttle() admitted, the get-task child greenlet spawned.
FetcherSend ==
    /\ fetcher = "throttle"
    /\ fetcher' = "fetching"
    /\ lateGetTask' = (lateGetTask \/ shutdown_event)
    /\ limiterUsed' = TRUE
    /\ UNCHANGED <<sweepVictim, sweepDead, sweepMissed>>
    /\ UNCHANGED <<fetchTask, orphans, task_queue, qp, qpTask, poolSize, poolAlive, poolMembers,
                   exec, registry, expired, thread_pool_size, restart_event,
                   shutdown_event, main, watchdog, nextTask, restarts>>
    /\ UNCHANGED <<queueMax, tasksLeft>>
    /\ UnchangedOthers("sys")

\* Faulty variant: an error in a get-task attempt ends the loop.
after_fetch_error_exit == "stopped"

\* _get_task_loop: after an attempt that failed (no result, a status above
\* 500, the 30 s timeout) the loop sleeps and goes on.
after_fetch_error == "sleep"

\* _get_task_loop: the child's result is handled.
\*   "task"  200 with a task: task_queue.put(task), blocking while full
\*   "none"  200 with no task, 204, or a status that is not above 500
\*   "wait"  no result (network error) or a status above 500: gevent.sleep
FetcherResponse ==
    /\ fetcher = "fetching"
    /\ \E r \in {"task", "none", "wait"} :
        CASE r = "task" ->
                /\ tasksLeft > 0
                /\ tasksLeft' = tasksLeft - 1
                /\ nextTask' = nextTask + 1
                /\ IF Len(task_queue) < queueMax
                   THEN /\ task_queue' = Append(task_queue, nextTask)
                        /\ exec' = [exec EXCEPT ![nextTask] = "queued"]
                        /\ fetcher' = LoopTop("throttle")
                        /\ fetchTask' = 0
                   ELSE /\ fetcher' = "put"
                        /\ fetchTask' = nextTask
                        /\ exec' = [exec EXCEPT ![nextTask] = "fetched"]
                        /\ UNCHANGED task_queue
          [] r = "none" ->
                /\ fetcher' = LoopTop("throttle")
                /\ UNCHANGED <<nextTask, tasksLeft, task_queue, exec, fetchTask>>
          [] r = "wait" ->
                /\ fetcher' = after_fetch_error
                /\ UNCHANGED <<nextTask, tasksLeft, task_queue, exec, fetchTask>>
    /\ UNCHANGED <<orphans, qp, qpTask, poolSize, poolAlive, poolMembers, registry, expired,
                   thread_pool_size, restart_event, shutdown_event, main,
                   watchdog, restarts>>
    /\ UNCHANGED <<lateGetTask, limiterUsed, sweepVictim, sweepDead, sweepMissed>>
    /\ UNCHANGED queueMax
    /\ UnchangedOthers("sys")

\* _get_task_loop: gevent.Timeout(30) fires; fetch_greenlet.kill(), sleep(5).
FetcherTimeout ==
    /\ fetcher = "fetching"
    /\ fetcher' = after_fetch_error
    /\ UNCHANGED <<fetchTask, orphans, task_queue, qp, qpTask, poolSize, poolAlive, poolMembers,
                   exec, registry, expired, thread_pool_size, restart_event,
                   shutdown_event, main, watchdog, nextTask, restarts>>
    /\ UNCHANGED <<lateGetTask, limiterUsed, sweepVictim, sweepDead, sweepMissed>>
    /\ UNCHANGED <<queueMax, tasksLeft>>
    /\ UnchangedOthers("sys")

\* _get_task_loop: gevent.sleep returns.
FetcherWake ==
    /\ fetcher = "sleep"
    /\ fetcher' = LoopTop("throttle")
    /\ UNCHANGED <<fetchTask, orphans, task_queue, qp, qpTask, poolSize, poolAlive, poolMembers,
                   exec, registry, expired, thread_pool_size, restart_event,
                   shutdown_event, main, watchdog, nextTask, restarts>>
    /\ UNCHANGED <<lateGetTask, limiterUsed, sweepVictim, sweepDead, sweepMissed>>
    /\ UNCHANGED <<queueMax, tasksLeft>>
    /\ UnchangedOthers("sys")

\* _get_task_loop: the blocked task_queue.put(task) goes through.
FetcherPut ==
    /\ fetcher = "put"
    /\ Len(task_queue) < queueMax
    /\ task_queue' = Append(task_queue, fetchTask)
    /\ exec' = [exec EXCEPT ![fetchTask] = "queued"]
    /\ fetchTask' = 0
    /\ fetcher' = LoopTop("throttle")
    /\ UNCHANGED <<orphans, qp, qpTask, poolSize, poolAlive, poolMembers, registry, expired,
                   thread_pool_size, restart_event, shutdown_event, main,
                   watchdog, nextTask, restarts>>
    /\ UNCHANGED <<lateGetTask, limiterUsed, sweepVictim, sweepDead, sweepMissed>>
    /\ UNCHANGED <<queueMax, tasksLeft>>
    /\ UnchangedOthers("sys")

\* _fetch_task_once in a child whose fetcher was killed: requests.get returns
\* (timeout=25 at the latest) and the result is dropped.
OrphanReturns ==
    /\ orphans > 0
    /\ orphans' = orphans - 1
    /\ UNCHANGED <<fetcher, fetchTask, task_queue, qp, qpTask, poolSize, poolAlive, poolMembers,
                   exec, registry, expired, thread_pool_size, restart_event,
                   shutdown_event, main, watchdog, nextTask, restarts>>
    /\ UNCHANGED <<lateGetTask, limiterUsed, sweepVictim, sweepDead, sweepMissed>>
    /\ UNCHANGED <<queueMax, tasksLeft>>
    /\ UnchangedOthers("sys")

\* spawn_with_timeout: the greenlet enters the pool, registers and begins
\* process_task_async; a globalConfig in the task is applied first.  A
\* fetch-logs task goes straight to its control-plane upload.
SpawnExecution(t) ==
    /\ \E gc \in GlobalConfigs :
        thread_pool_size' = update_agent_config(gc, thread_pool_size)
    /\ \E st \in {"target", "throttle"} : exec' = [exec EXCEPT ![t] = st]
    /\ registry' = registry \cup {t}
    /\ poolMembers' = poolMembers \cup {t}

\* Faulty variant: the newest task is taken first.
queue_get_newest(q) == [task |-> q[Len(q)], rest |-> SubSeq(q, 1, Len(q) - 1)]

\* gevent.queue.Queue.get: the oldest task and what is left.
queue_get(q) == [task |-> Head(q), rest |-> Tail(q)]

\* _queue_processor_loop: task_queue.get, then pool.spawn, blocking while the
\* pool is full.
QpGet ==
    /\ qp = "get"
    /\ task_queue # <<>>
    /\ task_queue' = queue_get(task_queue).rest
    /\ IF pool_free(poolMembers, poolSize)
       THEN /\ SpawnExecution(queue_get(task_queue).task)
            /\ qp' = LoopTop("get")
            /\ qpTask' = 0
       ELSE /\ qp' = "spawn"
            /\ qpTask' = queue_get(task_queue).task
            /\ exec' = [exec EXCEPT ![queue_get(task_queue).task] = "dequeued"]
            /\ UNCHANGED <<registry, thread_pool_size, poolMembers>>
    /\ UNCHANGED <<fetcher, fetchTask, orphans, poolSize, poolAlive, expired,
                   restart_event, shutdown_event, main, watchdog, nextTask, restarts>>
    /\ UNCHANGED <<lateGetTask, limiterUsed, sweepVictim, sweepDead, sweepMissed>>
    /\ UNCHANGED <<queueMax, tasksLeft>>
    /\ UnchangedOthers("sys")

\* _queue_processor_loop: the blocked pool.spawn goes through.
QpSpawn ==
    /\ qp = "spawn"
    /\ pool_free(poolMembers, poolSize)
    /\ SpawnExecution(qpTask)
    /\ qp' = LoopTop("get")
    /\ qpTask' = 0
    /\ UNCHANGED <<fetcher, fetchTask, orphans, task_queue, poolSize, poolAlive,
                   expired, restart_event, shutdown_event, main, watchdog,
                   nextTask, restarts>>
    /\ UNCHANGED <<lateGetTask, limiterUsed, sweepVictim, sweepDead, sweepMissed>>
    /\ UNCHANGED <<queueMax, tasksLeft>>
    /\ UnchangedOthers("sys")

\* _queue_processor_loop: task_queue.get(timeout=1) raises Empty with shutdown
\* set; the loop ends.
QpStop ==
    /\ qp = "get"
    /\ task_queue = <<>>
    /\ shutdown_event
    /\ qp' = "stopped"
    /\ UNCHANGED <<fetcher, fetchTask, orphans, task_queue, qpTask, poolSize,
                   poolAlive, poolMembers, exec, registry, expired, thread_pool_size,
                   restart_event, shutdown_event, main, watchdog, nextTask, restarts>>
    /\ UNCHANGED <<lateGetTask, limiterUsed, sweepVictim, sweepDead, sweepMissed>>
    /\ UNCHANGED <<queueMax, tasksLeft>>
    /\ UnchangedOthers("sys")

\* Faulty variant: wrapped() without its finally clause.
Finish_registered(t, how) ==
    /\ exec' = [exec EXCEPT ![t] = how]
    /\ poolMembers' = poolMembers \ {t}
    /\ expired' = expired \ {t}
    /\ UNCHANGED registry

\* The execution's greenlet ends: wrapped()'s finally unregisters it and the
\* pool discards it.
Finish(t, how) ==
    /\ exec' = [exec EXCEPT ![t] = how]
    /\ registry' = registry \ {t}
    /\ poolMembers' = poolMembers \ {t}
    /\ expired' = expired \ {t}

\* process_task: the target request is over, by response or by exception;
\* what follows is a control-plane call behind throttle().
ExecTargetDone(t) ==
    /\ exec[t] = "target"
    /\ exec' = [exec EXCEPT ![t] = "throttle"]
    /\ UNCHANGED <<fetcher, fetchTask, orphans, task_queue, qp, qpTask, poolSize,
                   poolAlive, poolMembers, registry, expired, thread_pool_size, restart_event,
                   shutdown_event, main, watchdog, nextTask, restarts>>
    /\ UNCHANGED <<lateGetTask, limiterUsed, sweepVictim, sweepDead, sweepMissed>>
    /\ UNCHANGED <<queueMax, tasksLeft>>
    /\ UnchangedOthers("sys")

\* throttle() admits; the control-plane request is sent.
ExecSend(t) ==
    /\ exec[t] = "throttle"
    /\ exec' = [exec EXCEPT ![t] = "cp"]
    /\ limiterUsed' = TRUE
    /\ UNCHANGED <<fetcher, fetchTask, orphans, task_queue, qp, qpTask, poolSize,
                   poolAlive, poolMembers, registry, expired, thread_pool_size, restart_event,
                   shutdown_event, main, watchdog, nextTask, restarts>>
    /\ UNCHANGED <<lateGetTask, sweepVictim, sweepDead, sweepMissed>>
    /\ UNCHANGED <<queueMax, tasksLeft>>
    /\ UnchangedOthers("sys")

\* The control-plane request is over: another call follows (a retry, or
\* put-result after an upload), or the execution returns.
ExecResponse(t) ==
    /\ exec[t] = "cp"
    /\ \/ /\ exec' = [exec EXCEPT ![t] = "throttle"]
          /\ UNCHANGED <<registry, poolMembers, expired>>
       \/ Finish(t, "done")
    /\ UNCHANGED <<fetcher, fetchTask, orphans, task_queue, qp, qpTask, poolSize,
                   poolAlive, thread_pool_size, restart_event,
                   shutdown_event, main, watchdog, nextTask, restarts>>
    /\ UNCHANGED <<lateGetTask, limiterUsed, sweepVictim, sweepDead, sweepMissed>>
    /\ UNCHANGED <<queueMax, tasksLeft>>
    /\ UnchangedOthers("sys")

\* GreenletTimeoutError lands in the execution: in process_task it is caught
\* and an error result goes on to the control plane; in update_task it ends
\* the execution (process_task_async logs it).
AfterGreenletTimeoutError(st) ==
    IF st = "target" THEN {"throttle"} ELSE {"throttle", "done"}

\* spawn_with_timeout: the execution's Timeout fires, once.  A watchdog
\* whose victim has just died resumes in that same pass of the hub, before
\* any later timer.
ExecTimeout(t) ==
    /\ exec[t] \in Running
    /\ t \notin expired
    /\ ~(sweepVictim # 0 /\ exec[sweepVictim] \notin Running)
    /\ \E st \in AfterGreenletTimeoutError(exec[t]) :
        IF st = "done" THEN Finish(t, "done")
        ELSE /\ exec' = [exec EXCEPT ![t] = st]
             /\ expired' = expired \cup {t}
             /\ UNCHANGED <<registry, poolMembers>>
    /\ UNCHANGED <<fetcher, fetchTask, orphans, task_queue, qp, qpTask, poolSize,
                   poolAlive, thread_pool_size, restart_event, shutdown_event,
                   main, watchdog, nextTask, restarts>>
    /\ UNCHANGED <<lateGetTask, limiterUsed, sweepVictim, sweepDead, sweepMissed>>
    /\ UNCHANGED <<queueMax, tasksLeft>>
    /\ UnchangedOthers("sys")

\* get_dead_greenlets: the registered executions whose age is over their
\* deadline (is_expired); a dead greenlet has already unregistered itself.
get_dead_greenlets == {t \in registry : t \in expired}

\* greenlet.kill(GreenletTimeoutError(...)) in cleanup_dead_greenlets: the
\* exception lands in execution t, which handles it or ends.
ThrowAt(t, reg) ==
    \E st \in AfterGreenletTimeoutError(exec[t]) :
        /\ exec' = [exec EXCEPT ![t] = st]
        /\ poolMembers' = IF st = "done" THEN poolMembers \ {t} ELSE poolMembers
        /\ expired' = IF st = "done" THEN expired \ {t} ELSE expired
        /\ registry' = IF st = "done" THEN reg \ {t} ELSE reg

\* cleanup_dead_greenlets (in _watchdog_loop): the list of dead greenlets is
\* taken once, and the first one still alive is killed with
\* GreenletTimeoutError; kill() blocks (block=True, no timeout) until that
\* greenlet is dead.
Sweep(t) ==
    /\ watchdog = "alive"
    /\ sweepVictim = 0
    /\ t \in get_dead_greenlets
    /\ exec[t] \in Running
    /\ ThrowAt(t, registry)
    /\ sweepVictim' = t
    /\ sweepDead' = get_dead_greenlets \ {t}
    /\ UNCHANGED <<fetcher, fetchTask, orphans, task_queue, qp, qpTask, poolSize,
                   poolAlive, thread_pool_size, restart_event,
                   shutdown_event, main, watchdog, nextTask, restarts>>
    /\ UNCHANGED <<lateGetTask, limiterUsed, sweepMissed>>
    /\ UNCHANGED <<queueMax, tasksLeft>>
    /\ UnchangedOthers("sys")

\* cleanup_dead_greenlets, after kill() and join() return: the victim is
\* unregistered and the loop goes on to the next entry of its list that is
\* still alive; with none left the sweep is over.
SweepJoin ==
    /\ sweepVictim # 0
    /\ exec[sweepVictim] \notin Running
    /\ LET reg  == registry \ {sweepVictim}
           live == {u \in sweepDead : exec[u] \in Running}
       IN  IF live = {}
           THEN /\ registry' = reg
                /\ sweepVictim' = 0
                /\ sweepDead' = {}
                /\ sweepMissed' = (sweepMissed \/
                      \E u \in expired : exec[u] \in Running \/ u \in reg)
                /\ UNCHANGED <<exec, poolMembers, expired>>
           ELSE \E u \in live :
                /\ ThrowAt(u, reg)
                /\ sweepVictim' = u
                /\ sweepDead' = sweepDead \ {u}
                /\ UNCHANGED sweepMissed
    /\ UNCHANGED <<fetcher, fetchTask, orphans, task_queue, qp, qpTask, poolSize,
                   poolAlive, thread_pool_size, restart_event,
                   shutdown_event, main, watchdog, nextTask, restarts>>
    /\ UNCHANGED <<lateGetTask, limiterUsed>>
    /\ UNCHANGED <<queueMax, tasksLeft>>
    /\ UnchangedOthers("sys")

\* _watchdog_loop: is_healthy() says no; _restart_event.set().
WatchdogUnhealthy ==
    /\ watchdog = "alive"
    /\ sweepVictim = 0
    /\ restarts < MaxRestarts
    /\ ~restart_event
    /\ restart_event' = TRUE
    /\ UNCHANGED <<fetcher, fetchTask, orphans, task_queue, qp, qpTask, poolSize,
                   poolAlive, poolMembers, exec, registry, expired,
                   thread_pool_size, shutdown_event, main, watchdog, nextTask,
                   restarts>>
    /\ UNCHANGED <<lateGetTask, limiterUsed, sweepVictim, sweepDead, sweepMissed>>
    /\ UNCHANGED <<queueMax, tasksLeft>>
    /\ UnchangedOthers("sys")

\* _watchdog_loop leaves its loop: gevent.sleep returns with shutdown set.
WatchdogStop ==
    /\ watchdog = "alive"
    /\ sweepVictim = 0
    /\ shutdown_event
    /\ watchdog' = "stopped"
    /\ UNCHANGED <<fetcher, fetchTask, orphans, task_queue, qp, qpTask, poolSize,
                   poolAlive, poolMembers, exec, registry, expired,
                   thread_pool_size, restart_event, shutdown_event, main,
                   nextTask, restarts>>
    /\ UNCHANGED <<lateGetTask, limiterUsed, sweepVictim, sweepDead, sweepMissed>>
    /\ UNCHANGED <<queueMax, tasksLeft>>
    /\ UnchangedOthers("sys")

\* A killed greenlet (GreenletExit): dead, whatever it held is gone.
KilledFetcher == [orphans |-> IF fetcher = "fetching" THEN orphans + 1 ELSE orphans,
                  lost    |-> IF fetcher = "put" THEN {fetchTask} ELSE {}]
KilledQp      == IF qp = "spawn" THEN {qpTask} ELSE {}

\* _destroy_pool: greenlet_manager.shutdown() kills the registered
\* executions, pool.kill() the pool's; self.pool = None.
destroy_pool_victims == (registry \cap InFlight) \cup pool_kill(poolMembers \cap InFlight)

\* _handle_restart, steps 1-3: count, flush, kill the watchdog greenlet.
RestartKillWatchdog ==
    /\ main = "loop"
    /\ ~shutdown_event
    /\ restart_event
    /\ restarts' = restarts + 1
    /\ watchdog' = "dead"
    /\ main' = "kill_get_task"
    /\ UNCHANGED <<fetcher, fetchTask, orphans, task_queue, qp, qpTask, poolSize,
                   poolAlive, poolMembers, exec, registry, expired,
                   thread_pool_size, restart_event, shutdown_event, nextTask>>
    /\ sweepVictim' = 0
    /\ sweepDead' = {}
    /\ UNCHANGED <<lateGetTask, limiterUsed, sweepMissed>>
    /\ UNCHANGED <<queueMax, tasksLeft>>
    /\ UnchangedOthers("sys")

\* _handle_restart, step 4: kill the get_task greenlet.  Its child greenlet,
\* if one is in flight, is not killed; a task it was putting is gone.
RestartKillGetTask ==
    /\ main = "kill_get_task"
    /\ fetcher' = "dead"
    /\ fetchTask' = 0
    /\ orphans' = KilledFetcher.orphans
    /\ exec' = [t \in Tasks |-> IF t \in KilledFetcher.lost THEN "lost" ELSE exec[t]]
    /\ main' = "kill_queue_processor"
    /\ UNCHANGED <<task_queue, qp, qpTask, poolSize, poolAlive, poolMembers,
                   registry, expired, thread_pool_size, restart_event,
                   shutdown_event, watchdog, nextTask, restarts>>
    /\ UNCHANGED <<lateGetTask, limiterUsed, sweepVictim, sweepDead, sweepMissed>>
    /\ UNCHANGED <<queueMax, tasksLeft>>
    /\ UnchangedOthers("sys")

\* _handle_restart, step 5: kill the queue_processor greenlet; a task it was
\* waiting to spawn is gone.
RestartKillQueueProcessor ==
    /\ main = "kill_queue_processor"
    /\ qp' = "dead"
    /\ qpTask' = 0
    /\ exec' = [t \in Tasks |-> IF t \in KilledQp THEN "lost" ELSE exec[t]]
    /\ main' = "destroy_pool"
    /\ UNCHANGED <<fetcher, fetchTask, orphans, task_queue, poolSize, poolAlive,
                   poolMembers, registry, expired, thread_pool_size,
                   restart_event, shutdown_event, watchdog, nextTask, restarts>>
    /\ UNCHANGED <<lateGetTask, limiterUsed, sweepVictim, sweepDead, sweepMissed>>
    /\ UNCHANGED <<queueMax, tasksLeft>>
    /\ UnchangedOthers("sys")

\* _handle_restart, step 6: _destroy_pool().
RestartDestroyPool ==
    /\ main = "destroy_pool"
    /\ exec' = [t \in Tasks |-> IF t \in destroy_pool_victims THEN "killed" ELSE exec[t]]
    /\ registry' = {}
    /\ poolMembers' = {}
    /\ poolAlive' = FALSE
    /\ expired' = expired \ destroy_pool_victims
    /\ main' = "reset"
    /\ UNCHANGED <<fetcher, fetchTask, orphans, task_queue, qp, qpTask, poolSize,
                   thread_pool_size, restart_event, shutdown_event,
                   watchdog, nextTask, restarts>>
    /\ UNCHANGED <<lateGetTask, limiterUsed, sweepVictim, sweepDead, sweepMissed>>
    /\ UNCHANGED <<queueMax, tasksLeft>>
    /\ UnchangedOthers("sys")

\* Faulty variant: the tasks waiting in the handoff queue are kept.
drain_task_queue_keep(q) == q

\* _handle_restart step 7: get_nowait() until Empty.
drain_task_queue(q) == <<>>

\* Faulty variant: the main loop without self._restart_event.clear().
restart_event_kept == TRUE

\* _main_event_loop: self._restart_event.clear(), right after _handle_restart.
restart_event_clear == FALSE

\* _handle_restart, steps 7-14, and _restart_event.clear() after it: drain
\* the queue, reset limiter, metrics and registry, create the pool, respawn
\* the three greenlets.
RestartResetAndRespawn ==
    /\ main = "reset"
    /\ exec' = [t \in Tasks |-> IF exec[t] = "queued" THEN "drained" ELSE exec[t]]
    /\ task_queue' = drain_task_queue(task_queue)
    /\ limiterUsed' = FALSE
    /\ registry' = {}
    /\ poolSize' = create_pool_size(thread_pool_size)
    /\ poolAlive' = TRUE
    /\ poolMembers' = {}
    /\ watchdog' = LoopTop("alive")
    /\ fetcher' = LoopTop("throttle")
    /\ qp' = LoopTop("get")
    /\ restart_event' = restart_event_clear
    /\ main' = "loop"
    /\ UNCHANGED <<fetchTask, orphans, qpTask, expired, thread_pool_size,
                   shutdown_event, nextTask, restarts>>
    /\ UNCHANGED <<lateGetTask, sweepVictim, sweepDead, sweepMissed>>
    /\ UNCHANGED <<queueMax, tasksLeft>>
    /\ UnchangedOthers("sys")

\* trigger_shutdown (signal handler): _shutdown_event.set().
trigger_shutdown ==
    /\ ~shutdown_event
    /\ main # "exited"
    /\ shutdown_event' = TRUE
    /\ UNCHANGED <<fetcher, fetchTask, orphans, task_queue, qp, qpTask, poolSize,
                   poolAlive, poolMembers, exec, registry, expired,
                   thread_pool_size, restart_event, main, watchdog, nextTask,
                   restarts>>
    /\ UNCHANGED <<lateGetTask, limiterUsed, sweepVictim, sweepDead, sweepMissed>>
    /\ UNCHANGED <<queueMax, tasksLeft>>
    /\ UnchangedOthers("sys")

\* _shutdown: kill the three greenlets, _destroy_pool().
Shutdown ==
    /\ main = "loop"
    /\ shutdown_event
    /\ watchdog' = "dead"
    /\ fetcher' = "dead"
    /\ qp' = "dead"
    /\ fetchTask' = 0
    /\ qpTask' = 0
    /\ orphans' = KilledFetcher.orphans
    /\ exec' = [t \in Tasks |->
                  IF t \in KilledFetcher.lost \cup KilledQp THEN "lost"
                  ELSE IF t \in destroy_pool_victims THEN "killed"
                  ELSE exec[t]]
    /\ registry' = {}
    /\ poolMembers' = {}
    /\ poolAlive' = FALSE
    /\ expired' = expired \ destroy_pool_victims
    /\ main' = "exited"
    /\ UNCHANGED <<task_queue, poolSize, thread_pool_size,
                   restart_event, shutdown_event, nextTask, restarts>>
    /\ sweepVictim' = 0
    /\ sweepDead' = {}
    /\ UNCHANGED <<lateGetTask, limiterUsed, sweepMissed>>
    /\ UNCHANGED <<queueMax, tasksLeft>>
    /\ UnchangedOthers("sys")

Next ==
    \/ FetcherSend
    \/ FetcherResponse
    \/ FetcherTimeout
    \/ FetcherWake
    \/ FetcherPut
    \/ OrphanReturns
    \/ QpGet
    \/ QpSpawn
    \/ \E t \in Tasks : ExecTargetDone(t)
    \/ \E t \in Tasks : ExecSend(t)
    \/ \E t \in Tasks : ExecResponse(t)
    \/ \E t \in Tasks : ExecTimeout(t)
    \/ \E t \in Tasks : Sweep(t)
    \/ SweepJoin
    \/ WatchdogUnhealthy
    \/ RestartKillWatchdog
    \/ RestartKillGetTask
    \/ RestartKillQueueProcessor
    \/ RestartDestroyPool
    \/ RestartResetAndRespawn

\* The worker while no shutdown signal arrives.
Spec == InitSys /\ [][Next]_vars

\* The worker with a shutdown signal arriving at any moment.
NextShutdown ==
    \/ Next
    \/ trigger_shutdown
    \/ QpStop
    \/ WatchdogStop
    \/ Shutdown

SpecShutdown == InitSys /\ [][NextShutdown]_vars

\* The worker with its main loop scheduled fairly: the loop wakes from
\* _shutdown_event.wait(timeout=60) at least every 60 s and every step of
\* _handle_restart returns.
SpecRestartLive ==
    /\ SpecShutdown
    /\ WF_vars(\/ RestartKillWatchdog
               \/ RestartKillGetTask
               \/ RestartKillQueueProcessor
               \/ RestartDestroyPool
               \/ RestartResetAndRespawn)

\* C3: at every instant the executions begun and not yet returned number at
\* most the pool's size, and none is left once _destroy_pool has run, until
\* the new pool spawns one.
C3_InFlightWithinPool ==
    /\ Cardinality(InFlight) <= poolSize
    /\ ~poolAlive => InFlight = {}

\* C3 witness: a restart reaches _destroy_pool with the pool full and tasks
\* waiting in the queue.
C3_Witness ==
    /\ main = "destroy_pool"
    /\ Cardinality(InFlight) = poolSize
    /\ task_queue # <<>>

\* C12: outside a restart, whatever errors the get-task attempts and the
\* executions have met, the fetcher, the queue processor and the watchdog are
\* running, and an execution is only ever killed by a restart.
C12_ErrorsContained ==
    /\ main = "loop" =>
           /\ fetcher \in {"throttle", "fetching", "sleep", "put"}
           /\ qp \in {"get", "spawn"}
           /\ watchdog = "alive"
    /\ \A t \in Tasks : exec[t] = "killed" => restarts > 0

\* C12 witness: the fetcher is backing off after a failed attempt and one
\* execution has met its timeout error while another is still in flight.
C12_Witness ==
    /\ main = "loop"
    /\ fetcher = "sleep"
    /\ expired # {}
    /\ InFlight \ expired # {}

\* main has left _shutdown: the three loops and every execution are stopped.
AllStopped ==
    /\ fetcher \in {"stopped", "dead"}
    /\ qp \in {"stopped", "dead"}
    /\ watchdog \in {"stopped", "dead"}
    /\ InFlight = {}

\* C15: once shutdown is signalled no get-task call is issued and no restart
\* begins, and when the process has exited the fetcher, the queue processor,
\* the watchdog and every execution are stopped.
C15_ShutdownStopsEverything ==
    /\ ~lateGetTask
    /\ (shutdown_event /\ main = "loop") => ~ENABLED RestartKillWatchdog
    /\ main = "exited" => AllStopped

\* C4: at most two control-plane HTTP calls are in flight at any instant.
C4_AtMostTwoCalls == CPInFlight <= 2

C30_SweepLeavesNoExpired == ~sweepMissed

\* The worker with its executions scheduled fairly: an execution's target
\* request ends (the read timeout), throttle() admits its call, and after at
\* most max_retries + max_retry + 2 control-plane calls one is its last.
SpecLive ==
    /\ Spec
    /\ \A t \in Tasks :
        /\ WF_vars(ExecTargetDone(t))
        /\ WF_vars(ExecSend(t))
        /\ SF_vars(ExecResponse(t) /\ exec'[t] \notin Running)

\* The worker started with any of the pool sizes, and one more task for it
\* at the control plane, so that the handoff queue fills at either size.
SpecHandoff == InitSysWith(StartPoolSizes, MaxTasks + 1) /\ [][Next]_vars

C33_SpawnedInPutOrder ==
    \A a, b \in Tasks :
        (/\ a < b
         /\ exec[b] \in Running \cup {"done", "killed"}
         /\ exec[a] \in Running \cup {"done", "killed", "queued", "dequeued", "drained"})
        => exec[a] \in Running \cup {"done", "killed"}

\* C33 amended: while a task waits (with the fetcher, in the queue, or with
\* the queue processor) no task received after it has begun execution; a
\* task leaves the queue only to the queue processor or to a restart's
\* drain, and a task that has begun execution or was removed never waits or
\* begins again.
C33_FifoAmongSpawned ==
    /\ [](\A a, b \in Tasks :
            (a < b /\ exec[b] \in Running \cup {"done", "killed"})
            => exec[a] \notin {"fetched", "queued", "dequeued"})
    /\ [][\A t \in Tasks :
            /\ exec[t] \in Running => exec'[t] \in Running \cup {"done", "killed"}
            /\ exec[t] \in {"done", "killed", "lost", "drained"} => exec'[t] = exec[t]
            /\ exec[t] = "dequeued" => exec'[t] \in Running \cup {"dequeued", "lost"}]_vars

\* C33 witness: the third task waits in the queue while the first two have
\* begun execution in their order.
C33_Witness ==
    /\ exec[1] = "done"
    /\ exec[2] \in Running
    /\ exec[3] = "queued"

\* C36: no task received from the control plane disappears: each is waiting
\* (with the fetcher, on the handoff, with the queue processor), was started
\* by a worker, or was removed and counted by a restart's drain.
C36_NoTaskDisappears == \A t \in Tasks : exec[t] # "lost"

\* C37: at most one get-task request is in flight: the fetcher's child and
\* the children earlier fetchers left behind count together at most one.
C37_OneGetTaskInFlight == (IF fetcher = "fetching" THEN 1 ELSE 0) + orphans <= 1

\* C38: a restart request set by the watchdog is followed by a restart that
\* clears it, unless shutdown is signalled; the request is set only by the
\* running watchdog, stays set throughout the restart and is cleared only
\* by the step that completes it; a restart begins only from the main loop
\* with the request set, one restart at a time.
C38_OneRestartPerRequest ==
    /\ restart_event ~> (~restart_event \/ shutdown_event)
    /\ [](main \in {"kill_get_task", "kill_queue_processor", "destroy_pool", "reset"}
              => restart_event)
    /\ [][restarts' # restarts
            => /\ restart_event /\ ~shutdown_event
               /\ main = "loop" /\ main' = "kill_get_task"
               /\ restarts' = restarts + 1]_vars
    /\ [][(main = "reset" /\ main' = "loop") => ~restart_event']_vars
    /\ [][(restart_event /\ ~restart_event') => (main = "reset" /\ main' = "loop")]_vars
    /\ [][(~restart_event /\ restart_event') => watchdog = "alive"]_vars

\* C38 witness: the request has been set, the restart performed and the
\* request cleared, with the worker running again.
C38_Witness ==
    /\ restarts = 1
    /\ main = "loop"
    /\ ~restart_event
    /\ ~shutdown_event
    /\ watchdog = "alive"

GetTaskStaleThreshold      == 2   \* get_task_stale_threshold_sec, in ticks
TaskReceivedStaleThreshold == 3   \* task_received_stale_threshold_sec, in ticks
WatchdogInterval           == 1   \* watchdog_interval, in ticks
HealthMaxTime              == 6   \* the clock stops here

InitHealth ==
    /\ hmNow = 0
    /\ last_get_task_call = None
    /\ last_task_received = None
    /\ start_time = 0
    /\ hmRestartEvent = FALSE
    /\ watchNext = 0
    /\ lastCheck = <<>>
    /\ refGet = 0
    /\ refRecv = 0
    /\ restartAt = None
    /\ afterReset = <<>>
    /\ checksSinceRestart = 0
    /\ InitIdle("hm")

\* Faulty variant: one stale timestamp is enough to be unhealthy.
is_healthy_either(nw, lg, lr, st) ==
    LET get_task_stale ==
            IF lg # None THEN nw - lg > GetTaskStaleThreshold
                         ELSE nw - st > GetTaskStaleThreshold
        task_received_stale ==
            IF lr # None THEN nw - lr > TaskReceivedStaleThreshold
                         ELSE nw - st > TaskReceivedStaleThreshold
    IN  ~(get_task_stale \/ task_received_stale)

\* HealthMetrics.is_healthy at time nw, with _last_get_task_call lg,
\* _last_task_received lr and _start_time st.
is_healthy(nw, lg, lr, st) ==
    LET get_task_stale ==
            IF lg # None THEN nw - lg > GetTaskStaleThreshold
                         ELSE nw - st > GetTaskStaleThreshold
        task_received_stale ==
            IF lr # None THEN nw - lr > TaskReceivedStaleThreshold
                         ELSE nw - st > TaskReceivedStaleThreshold
        is_unhealthy == get_task_stale /\ task_received_stale
    IN  ~is_unhealthy

\* Faulty variant: the timestamps and the start time are cleared, not set.
reset_timestamps_cleared(nw) == [get |-> None, recv |-> None, start |-> 0]

\* HealthMetrics.reset_timestamps at time nw.
reset_timestamps(nw) == [get |-> nw, recv |-> nw, start |-> nw]

hmHistory == <<lastCheck, refGet, refRecv, restartAt, afterReset, checksSinceRestart>>
\* A tick of time passes; the watchdog's sleep ends on time.
HealthTick ==
    /\ hmNow < HealthMaxTime
    /\ hmNow < watchNext
    /\ hmNow' = hmNow + 1
    /\ UNCHANGED <<last_get_task_call, last_task_received, start_time,
                   hmRestartEvent, watchNext, hmHistory>>
    /\ UnchangedOthers("hm")

\* HealthMetrics.record_get_task_call, called by _get_task_loop.
RecordGetTaskCall ==
    /\ last_get_task_call' = hmNow
    /\ refGet' = hmNow
    /\ UNCHANGED <<hmNow, last_task_received, start_time, hmRestartEvent,
                   watchNext, lastCheck, refRecv, restartAt, afterReset,
                   checksSinceRestart>>
    /\ UnchangedOthers("hm")

\* HealthMetrics.record_task_received, called by _get_task_loop.
RecordTaskReceived ==
    /\ last_task_received' = hmNow
    /\ refRecv' = hmNow
    /\ UNCHANGED <<hmNow, last_get_task_call, start_time, hmRestartEvent,
                   watchNext, lastCheck, refGet, restartAt, afterReset,
                   checksSinceRestart>>
    /\ UnchangedOthers("hm")

\* _watchdog_loop: one check, then gevent.sleep(watchdog_interval).
WatchdogTick ==
    /\ hmNow = watchNext
    /\ hmNow < HealthMaxTime
    /\ LET healthy == is_healthy(hmNow, last_get_task_call, last_task_received,
                                 start_time)
       IN  /\ lastCheck' = [healthy |-> healthy,
                            sinceGet |-> hmNow - refGet,
                            sinceRecv |-> hmNow - refRecv]
           /\ hmRestartEvent' = (hmRestartEvent \/ ~healthy)
    /\ watchNext' = hmNow + WatchdogInterval
    /\ checksSinceRestart' = IF checksSinceRestart < 2
                                THEN checksSinceRestart + 1 ELSE 2
    /\ UNCHANGED <<hmNow, last_get_task_call, last_task_received, start_time,
                   refGet, refRecv, restartAt, afterReset>>
    /\ UnchangedOthers("hm")

\* _main_event_loop sees the restart event: _handle_restart (its step 9 is
\* reset_timestamps, its last step respawns the watchdog, which checks at
\* once or after its first sleep), then the event is cleared.
HandleRestart ==
    /\ hmRestartEvent
    /\ LET r == reset_timestamps(hmNow)
       IN  /\ last_get_task_call' = r.get
           /\ last_task_received' = r.recv
           /\ start_time' = r.start
           /\ afterReset' = <<r.get, r.recv>>
    /\ refGet' = hmNow
    /\ refRecv' = hmNow
    /\ restartAt' = hmNow
    /\ checksSinceRestart' = 0
    /\ hmRestartEvent' = FALSE
    /\ watchNext' \in {hmNow, hmNow + WatchdogInterval}
    /\ UNCHANGED <<hmNow, lastCheck>>
    /\ UnchangedOthers("hm")

NextHealth ==
    \/ HealthTick
    \/ RecordGetTaskCall
    \/ RecordTaskReceived
    \/ WatchdogTick
    \/ HandleRestart

SpecHealth == InitHealth /\ [][NextHealth]_vars

\* C13: a check finds the process unhealthy exactly when more than the
\* get-task threshold has passed since the last get-task call and more than
\* the task-received threshold since the last task received, a timestamp
\* never set counting from the start (or the last reset).
C13_UnhealthyIffBothStale ==
    lastCheck # <<>> =>
        (~lastCheck.healthy <=>
            (/\ lastCheck.sinceGet > GetTaskStaleThreshold
             /\ lastCheck.sinceRecv > TaskReceivedStaleThreshold))

\* C13 witness: a check found the process unhealthy although a task had
\* been received at some time, the get-task timestamp never having been set.
C13_Witness ==
    /\ lastCheck # <<>>
    /\ ~lastCheck.healthy
    /\ last_get_task_call = None
    /\ last_task_received # None

\* C14: when _handle_restart completes both timestamps equal the restart
\* time, and the first watchdog check after it finds the process healthy and
\* requests no restart.
C14_HealthyAfterRestart ==
    restartAt # None =>
        /\ afterReset = <<restartAt, restartAt>>
        /\ checksSinceRestart = 0 => ~hmRestartEvent
        /\ checksSinceRestart = 1 => (lastCheck.healthy /\ ~hmRestartEvent)

\* C14 witness: the first check after a restart has run, a tick after it.
C14_Witness ==
    /\ restartAt # None
    /\ checksSinceRestart = 1
    /\ hmNow > restartAt
    /\ lastCheck.healthy

(***************************************************************************)
(* SpecFetch: _get_task_loop alone, with the sleep each kind of get-task   *)
(* outcome leads to and the backoff it keeps.                              *)
(***************************************************************************)
MaxGetTaskAttempts == 8       \* get-task attempts in a run of the model
min_backoff_time  == 5
max_backoff_time  == 600
fetch_error_sleep == 5

\* The status codes the control plane answers a get-task call with.
GetTaskStatuses == {200, 204, 404, 500, 503}

InitFetch ==
    /\ gtPc = "top"
    /\ thread_backoff_time = min_backoff_time
    /\ gtSleep = 0
    /\ gtStatus = [kind |-> "", code |-> 0]
    /\ gtHadTask = FALSE
    /\ gtDue = 0
    /\ gtWaited = 0
    /\ gtChild = "none"
    /\ gtAttempt = 0
    /\ gtLastGetTaskCall = 0
    /\ gtLastTaskReceived = 0
    /\ gtPut = 0
    /\ InitIdle("gt")

\* "elif status_code > 500": the branch that backs off.
backs_off(status_code) == status_code > 500

\* "thread_backoff_time = min(max_backoff_time, thread_backoff_time * 2)".
next_backoff(b) == IF b * 2 < max_backoff_time THEN b * 2 ELSE max_backoff_time

\* Faulty variant: the timeout handler without fetch_greenlet.kill().
fetch_greenlet_left == "running"

\* _get_task_loop, "except GreenletTimeoutError": fetch_greenlet.kill()
\* raises GreenletExit in the child, which _fetch_task_once does not catch
\* (its handlers are "except Exception"), and blocks until the child is dead.
fetch_greenlet_kill == "killed"

\* Faulty variant: the task is handed on without being recorded.
record_task_received_skipped(last, nw) == last

\* HealthMetrics.record_get_task_call and record_task_received: the
\* timestamp, whatever it was, becomes the present.
record_get_task_call(last, nw) == nw
record_task_received(last, nw) == nw

\* _get_task_loop: throttle() admits the call, record_get_task_call() and
\* the child greenlet sends it.
GetTaskSend ==
    /\ gtPc = "top"
    /\ gtAttempt < MaxGetTaskAttempts
    /\ gtPc' = "fetching"
    /\ gtChild' = "running"
    /\ gtAttempt' = gtAttempt + 1
    /\ gtLastGetTaskCall' = record_get_task_call(gtLastGetTaskCall, gtAttempt + 1)
    /\ UNCHANGED <<thread_backoff_time, gtSleep, gtStatus, gtHadTask, gtDue,
                   gtWaited, gtLastTaskReceived, gtPut>>
    /\ UnchangedOthers("gt")

\* _get_task_loop: the child returned (task, status_code, duration_ms).
GetTaskResponse ==
    /\ gtPc = "fetching"
    /\ \E status_code \in GetTaskStatuses, hasTask \in BOOLEAN :
          /\ gtStatus' = [kind |-> "response", code |-> status_code]
          /\ gtChild' = "returned"
          /\ gtHadTask' = (status_code = 200 /\ hasTask)
          /\ gtDue' = thread_backoff_time
          /\ gtWaited' = 0
          /\ gtLastTaskReceived' =
                IF status_code = 200 /\ hasTask
                  THEN record_task_received(gtLastTaskReceived, gtAttempt)
                  ELSE gtLastTaskReceived
          /\ IF status_code = 200
                THEN /\ thread_backoff_time' = min_backoff_time
                     /\ gtPc' = IF hasTask THEN "put" ELSE "top"
                     /\ gtSleep' = 0
                ELSE IF status_code = 204
                THEN /\ gtPc' = "top"
                     /\ gtSleep' = 0
                     /\ UNCHANGED thread_backoff_time
                ELSE IF backs_off(status_code)
                THEN /\ gtPc' = "sleep"
                     /\ gtSleep' = thread_backoff_time
                     /\ UNCHANGED thread_backoff_time
                ELSE /\ gtPc' = "top"
                     /\ gtSleep' = 0
                     /\ UNCHANGED thread_backoff_time
    /\ UNCHANGED <<gtAttempt, gtLastGetTaskCall, gtPut>>
    /\ UnchangedOthers("gt")

\* _get_task_loop: task_queue.put(task), which waits while the queue is full.
GetTaskPut ==
    /\ gtPc = "put"
    /\ gtPc' = "top"
    /\ gtPut' = gtAttempt
    /\ UNCHANGED <<thread_backoff_time, gtSleep, gtStatus, gtHadTask, gtDue,
                   gtWaited, gtChild, gtAttempt, gtLastGetTaskCall,
                   gtLastTaskReceived>>
    /\ UnchangedOthers("gt")

\* _get_task_loop: the child returned None (a network or other error).
GetTaskNoResult ==
    /\ gtPc = "fetching"
    /\ gtStatus' = [kind |-> "none", code |-> 0]
    /\ gtChild' = "returned"
    /\ gtHadTask' = FALSE
    /\ gtDue' = thread_backoff_time
    /\ gtWaited' = 0
    /\ gtPc' = "sleep"
    /\ gtSleep' = fetch_error_sleep
    /\ UNCHANGED <<thread_backoff_time, gtAttempt, gtLastGetTaskCall,
                   gtLastTaskReceived, gtPut>>
    /\ UnchangedOthers("gt")

\* _get_task_loop: the 30 s Timeout fired while waiting for the child.
GetTaskTimeout ==
    /\ gtPc = "fetching"
    /\ gtStatus' = [kind |-> "timeout", code |-> 0]
    /\ gtChild' = fetch_greenlet_kill
    /\ gtHadTask' = FALSE
    /\ gtDue' = thread_backoff_time
    /\ gtWaited' = 0
    /\ gtPc' = "sleep"
    /\ gtSleep' = fetch_error_sleep
    /\ UNCHANGED <<thread_backoff_time, gtAttempt, gtLastGetTaskCall,
                   gtLastTaskReceived, gtPut>>
    /\ UnchangedOthers("gt")

\* _get_task_loop: gevent.sleep returns; after the backoff sleep the backoff
\* is doubled.
GetTaskSleepDone ==
    /\ gtPc = "sleep"
    /\ gtPc' = "top"
    /\ gtWaited' = gtSleep
    /\ gtSleep' = 0
    /\ thread_backoff_time' =
          IF gtStatus.kind = "response" /\ backs_off(gtStatus.code)
            THEN next_backoff(thread_backoff_time)
            ELSE thread_backoff_time
    /\ UNCHANGED <<gtStatus, gtHadTask, gtDue, gtChild, gtAttempt,
                   gtLastGetTaskCall, gtLastTaskReceived, gtPut>>
    /\ UnchangedOthers("gt")

NextFetch ==
    \/ GetTaskSend
    \/ GetTaskResponse
    \/ GetTaskPut
    \/ GetTaskNoResult
    \/ GetTaskTimeout
    \/ GetTaskSleepDone

SpecFetch == InitFetch /\ [][NextFetch]_vars

\* The loop is between two attempts, or has just issued the next one, after
\* a response.
AfterResponse == gtStatus.kind = "response" /\ gtPc \in {"top", "fetching"}

\* C16: after a get-task response with a status from 500 to 599 the fetcher
\* has waited the backoff current at the response before its next attempt,
\* and the backoff has doubled up to 600; the backoff stays within 5..600
\* and is 5 after a 200.
C16_BackoffAfter5xx ==
    /\ (AfterResponse /\ gtStatus.code \in 500..599) =>
           /\ gtWaited = gtDue
           /\ thread_backoff_time = next_backoff(gtDue)
    /\ thread_backoff_time \in min_backoff_time..max_backoff_time
    /\ (AfterResponse /\ gtStatus.code = 200) =>
           thread_backoff_time = min_backoff_time

\* C17: after a get-task response that carried no task and whose status is
\* not 5xx, the next get-task call is not issued before 5 s have been waited.
C17_IdleWaitBeforeNextCall ==
    (/\ gtPc = "fetching"
     /\ gtStatus.kind = "response"
     /\ ~gtHadTask
     /\ gtStatus.code \notin 500..599) => gtWaited >= 5

\* C34: a get-task attempt that meets its 30 s outer deadline leaves no
\* child greenlet alive: after the timeout the attempt's child is killed and
\* the loop sleeps 5 s and goes on to its next attempt; outside an attempt no
\* child is running.
C34_TimeoutKillsChild ==
    /\ [](gtPc # "fetching" => gtChild # "running")
    /\ []((gtStatus.kind = "timeout" /\ gtPc = "sleep") =>
             (gtChild = "killed" /\ gtSleep = fetch_error_sleep))
    /\ [][gtPc = "sleep" => gtPc' = "top"]_vars
    /\ [][gtPc = "top" => (gtPc' = "fetching" /\ gtChild' = "running")]_vars

C34_Witness ==
    /\ gtStatus.kind = "timeout"
    /\ gtPc = "fetching"
    /\ gtChild = "running"
    /\ gtWaited = fetch_error_sleep

\* C35: while a get-task call is in flight the "get-task called" timestamp
\* is that attempt's; a task that waits to be put, or has been put, on the
\* handoff has set the "task received" timestamp; and the "task received"
\* timestamp changes only when a 200 response carries a task.
C35_TimestampsRecorded ==
    /\ [](gtPc = "fetching" => gtLastGetTaskCall = gtAttempt)
    /\ [](gtPc = "put" => gtLastTaskReceived = gtAttempt)
    /\ [](gtPut <= gtLastTaskReceived)
    /\ [][gtPut' # gtPut => gtLastTaskReceived = gtPut']_vars
    /\ [][gtLastTaskReceived' # gtLastTaskReceived =>
            /\ gtPc = "fetching"
            /\ gtStatus'.kind = "response"
            /\ gtStatus'.code = 200
            /\ gtHadTask']_vars

C35_Witness ==
    /\ gtPut = 1
    /\ gtLastTaskReceived = 1
    /\ gtAttempt = 3
    /\ gtLastGetTaskCall = 3
    /\ gtStatus.kind = "timeout"
    /\ gtPc = "fetching"

(***************************************************************************)
(* SpecTimeout: the read timeout process_task computes for the target      *)
(* request from the task's expiryTsMs, and what requests does with it.     *)
(***************************************************************************)
TimeoutSpan == 8   \* expiryTsMs lies within this many seconds of now
TimeoutNow  == 10  \* the clock, in seconds, when the timeout is computed

\* Offsets of expiryTsMs from now, in ms, a quarter of a second apart.
ExpiryOffsets == {250 * k : k \in (-4 * TimeoutSpan)..(4 * TimeoutSpan)}

InitTimeout ==
    /\ rtPc = "start"
    /\ rtNowMs = TimeoutNow * 1000
    /\ expiryTime \in {TimeoutNow * 1000 + d : d \in ExpiryOffsets}
    /\ timeout = 0
    /\ InitIdle("rt")

\* Python's round(n / d) for integers n and d > 0: to the nearest integer,
\* a half going to the even neighbour.
py_round_div(n, d) ==
    LET q == n \div d
        r == n % d
    IN  IF 2 * r < d THEN q
        ELSE IF 2 * r > d THEN q + 1
        ELSE IF q % 2 = 0 THEN q ELSE q + 1

\* "timeout = round((expiryTime - round(time.time() * 1000)) / 1000)".
read_timeout(expiry, nowMs) == py_round_div(expiry - nowMs, 1000)

\* process_task: the timeout is computed.
ComputeTimeout ==
    /\ rtPc = "start"
    /\ rtPc' = "computed"
    /\ timeout' = read_timeout(expiryTime, rtNowMs)
    /\ UNCHANGED <<expiryTime, rtNowMs>>
    /\ UnchangedOthers("rt")

\* requests.request(..., timeout=(15, timeout)): the request is sent.
TargetRequestIssued ==
    /\ rtPc = "computed"
    /\ timeout > 0
    /\ rtPc' = "requested"
    /\ UNCHANGED <<expiryTime, rtNowMs, timeout>>
    /\ UnchangedOthers("rt")

\* requests.request(..., timeout=(15, timeout)) with a read timeout that is
\* not positive: ValueError before anything is sent, caught by process_task's
\* "except Exception".
TargetTimeoutRejected ==
    /\ rtPc = "computed"
    /\ timeout <= 0
    /\ rtPc' = "raised"
    /\ UNCHANGED <<expiryTime, rtNowMs, timeout>>
    /\ UnchangedOthers("rt")

NextTimeout ==
    \/ ComputeTimeout
    \/ TargetRequestIssued
    \/ TargetTimeoutRejected

SpecTimeout == InitTimeout /\ [][NextTimeout]_vars

\* C22: the read timeout is max(5 s, (expiryTsMs - now) / 1000), to the
\* nearest second: 5 s when expiryTsMs is less than 5 s ahead or in the past,
\* never zero or negative, and the target request is issued.
C22_ReadTimeoutFloored ==
    rtPc \notin {"off", "start"} =>
        LET remaining == expiryTime - rtNowMs
        IN  /\ remaining <= 5000 => timeout = 5
            /\ remaining > 5000 =>
                   (timeout * 1000 - remaining) \in -500..500
            /\ timeout > 0
            /\ rtPc # "raised"

(***************************************************************************)
(* SpecConfig: update_agent_config applied to the globalConfig of          *)
(* successive tasks.  A key of a globalConfig is <<>> when the dictionary  *)
(* does not carry it and <<v>> when it carries the value v.                *)
(***************************************************************************)
MaxConfigApplies == 2   \* globalConfigs applied in one run

Optional(S) == {<<>>} \cup {<<v>> : v \in S}

\* The globalConfigs a task may carry: the control plane sends debugMode,
\* verifyCert, poolSize, uploadToAC and rateLimitPerMin, never the
\* threadPoolSize key update_agent_config tests.
GlobalConfigDicts ==
    [debugMode       : Optional(BOOLEAN),
     verifyCert      : Optional(BOOLEAN),
     threadPoolSize  : Optional({}),
     poolSize        : Optional({2}),
     uploadToAC      : Optional(BOOLEAN),
     rateLimitPerMin : Optional({7})]

\* The configuration after start-up (get_initial_config, setup_logger).
InitialConfigs ==
    [verify_cert      : BOOLEAN,
     thread_pool_size : {default_pool_size},
     upload_to_ac     : BOOLEAN,
     request_limit    : {25},
     time_window      : {15},
     log_level        : {"INFO", "DEBUG"}]

InitConfig ==
    /\ config \in InitialConfigs
    /\ cfgGc = <<>>
    /\ cfgBefore = <<>>
    /\ cfgRepeat = FALSE
    /\ cfgApplied = 0
    /\ InitIdle("cfg")

\* dict.get(key, default) on a key of a globalConfig.
Get(entry, default) == IF entry = <<>> THEN default ELSE entry[1]

\* Python's truth value of a number.
Truthy(n) == n # 0

\* Faulty variant: a carried uploadToAC flips upload_to_ac.
updated_config_flip(gc, cfg) ==
    [verify_cert |->
        IF Get(gc.verifyCert, FALSE) THEN Get(gc.verifyCert, FALSE)
                                     ELSE cfg.verify_cert,
     thread_pool_size |->
        IF Truthy(Get(gc.threadPoolSize, 5)) THEN Get(gc.poolSize, 5)
                                             ELSE cfg.thread_pool_size,
     upload_to_ac |->
        IF gc.uploadToAC # <<>> THEN ~cfg.upload_to_ac
                                ELSE cfg.upload_to_ac,
     request_limit |->
        IF Truthy(Get(gc.rateLimitPerMin, 500)) THEN Get(gc.rateLimitPerMin, 100)
                                                ELSE cfg.request_limit,
     time_window |->
        IF Truthy(Get(gc.rateLimitPerMin, 500)) THEN 60 ELSE cfg.time_window,
     log_level |->
        IF gc.debugMode # <<>>
          THEN (IF Get(gc.debugMode, FALSE) THEN "DEBUG" ELSE "INFO")
          ELSE cfg.log_level]

\* update_agent_config(global_config) on the configuration cfg.
updated_config(gc, cfg) ==
    [verify_cert |->
        IF Get(gc.verifyCert, FALSE) THEN Get(gc.verifyCert, FALSE)
                                     ELSE cfg.verify_cert,
     thread_pool_size |->
        IF Truthy(Get(gc.threadPoolSize, 5)) THEN Get(gc.poolSize, 5)
                                             ELSE cfg.thread_pool_size,
     upload_to_ac |->
        IF gc.uploadToAC # <<>> THEN Get(gc.uploadToAC, TRUE)
                                ELSE cfg.upload_to_ac,
     request_limit |->
        IF Truthy(Get(gc.rateLimitPerMin, 500)) THEN Get(gc.rateLimitPerMin, 100)
                                                ELSE cfg.request_limit,
     time_window |->
        IF Truthy(Get(gc.rateLimitPerMin, 500)) THEN 60 ELSE cfg.time_window,
     log_level |->
        IF gc.debugMode # <<>>
          THEN (IF Get(gc.debugMode, FALSE) THEN "DEBUG" ELSE "INFO")
          ELSE cfg.log_level]

\* process_task: "if task.get('globalConfig') is not None:
\* update_agent_config(global_config)".
ApplyGlobalConfig ==
    /\ cfgApplied < MaxConfigApplies
    /\ \E gc \in GlobalConfigDicts :
          /\ config' = updated_config(gc, config)
          /\ cfgGc' = gc
          /\ cfgRepeat' = (cfgApplied > 0 /\ gc = cfgGc)
    /\ cfgBefore' = config
    /\ cfgApplied' = cfgApplied + 1
    /\ UnchangedOthers("cfg")

NextConfig == ApplyGlobalConfig

SpecConfig == InitConfig /\ [][NextConfig]_vars

\* C23: after a globalConfig is applied, each of verifyCert, poolSize,
\* uploadToAc and rateLimitPerMin that it carries has the carried value in
\* the runtime configuration.
C23_CarriedValuesApplied ==
    cfgApplied > 0 =>
        /\ cfgGc.verifyCert # <<>> => config.verify_cert = cfgGc.verifyCert[1]
        /\ cfgGc.poolSize # <<>> => config.thread_pool_size = cfgGc.poolSize[1]
        /\ cfgGc.uploadToAC # <<>> => config.upload_to_ac = cfgGc.uploadToAC[1]
        /\ cfgGc.rateLimitPerMin # <<>> =>
               config.request_limit = cfgGc.rateLimitPerMin[1]

\* C24: applying the same globalConfig a second time in a row changes
\* nothing in the runtime configuration.
C24_Idempotent == cfgRepeat => config = cfgBefore

\* C24 witness: a globalConfig carrying every option was applied twice in a
\* row, and its first application had changed the configuration.
C24_Witness ==
    /\ cfgRepeat
    /\ cfgApplied = 2
    /\ cfgGc.verifyCert = <<TRUE>>
    /\ cfgGc.poolSize # <<>>
    /\ cfgGc.uploadToAC # <<>>
    /\ cfgGc.rateLimitPerMin # <<>>
    /\ cfgGc.debugMode # <<>>
    /\ config.thread_pool_size # default_pool_size

\* C40: after a globalConfig is applied, each of thread_pool_size, the
\* limiter's request_limit and time_window, verify_cert and upload_to_ac
\* whose option the globalConfig does not carry is as it was before.
C40_AbsentOptionsUnchanged ==
    cfgApplied > 0 =>
        /\ cfgGc.poolSize = <<>> =>
               config.thread_pool_size = cfgBefore.thread_pool_size
        /\ cfgGc.rateLimitPerMin = <<>> =>
               /\ config.request_limit = cfgBefore.request_limit
               /\ config.time_window = cfgBefore.time_window
        /\ cfgGc.verifyCert = <<>> => config.verify_cert = cfgBefore.verify_cert
        /\ cfgGc.uploadToAC = <<>> => config.upload_to_ac = cfgBefore.upload_to_ac

(***************************************************************************)
(* SpecMetrics: BufferedMetricsLogger.  write_metric, an iteration of      *)
(* _auto_flush_loop and flush_now have no yield point, so each is one      *)
(* step; main's shutdown_handler runs on the signal and again at exit      *)
(* (atexit).                                                               *)
(***************************************************************************)
MetricsMaxEvents == 4   \* events recorded in one run
MetricsMaxTime   == 4   \* the clock stops here
BufferSize       == 2   \* buffer_size
FlushInterval    == 2   \* flush_interval, in ticks

InitMetrics ==
    /\ mBuffer = <<>>
    /\ mWritten = <<>>
    /\ mNext = 1
    /\ mClock = 0
    /\ last_flush_time = 0
    /\ shutdown_flag = FALSE
    /\ flush_greenlet = "sleeping"
    /\ mPhase = "running"
    /\ mLate = {}
    /\ InitIdle("mt")

\* Faulty variant: the buffer is copied to the file but not cleared.
drain_copy_only(buf, wr) == [buffer |-> buf, written |-> wr \o buf]

\* "events_to_flush = self.buffer[:]; self.buffer.clear()" under the lock,
\* then each event of events_to_flush is written to the file.
drain(buf, wr) == [buffer |-> <<>>, written |-> wr \o buf]

MetricsTick ==
    /\ mPhase # "exited"
    /\ mClock < MetricsMaxTime
    /\ mClock' = mClock + 1
    /\ UNCHANGED <<mBuffer, mWritten, mNext, last_flush_time, shutdown_flag,
                   flush_greenlet, mPhase, mLate>>
    /\ UnchangedOthers("mt")

\* write_metric, called by any greenlet that is still running.
WriteMetric ==
    /\ mPhase \in {"running", "signalled"}
    /\ mNext <= MetricsMaxEvents
    /\ LET appended == Append(mBuffer, mNext)
           d == drain(appended, mWritten)
       IN  IF Len(appended) >= BufferSize
             THEN /\ mBuffer' = d.buffer
                  /\ mWritten' = d.written
                  /\ last_flush_time' = mClock
             ELSE /\ mBuffer' = appended
                  /\ UNCHANGED <<mWritten, last_flush_time>>
    /\ mLate' = IF mPhase = "signalled" THEN mLate \cup {mNext} ELSE mLate
    /\ mNext' = mNext + 1
    /\ UNCHANGED <<mClock, shutdown_flag, flush_greenlet, mPhase>>
    /\ UnchangedOthers("mt")

\* _auto_flush_loop: the sleep ends, the buffer is flushed if it is not
\* empty and the interval has passed since the last flush, and the loop
\* tests shutdown_flag.
AutoFlush ==
    /\ mPhase # "exited"
    /\ flush_greenlet = "sleeping"
    /\ LET d == drain(mBuffer, mWritten)
       IN  IF mBuffer # <<>> /\ mClock - last_flush_time >= FlushInterval
             THEN /\ mBuffer' = d.buffer
                  /\ mWritten' = d.written
                  /\ last_flush_time' = mClock
             ELSE UNCHANGED <<mBuffer, mWritten, last_flush_time>>
    /\ flush_greenlet' = IF shutdown_flag THEN "stopped" ELSE "sleeping"
    /\ UNCHANGED <<mNext, mClock, shutdown_flag, mPhase, mLate>>
    /\ UnchangedOthers("mt")

\* flush_now, called by _handle_restart.
FlushNow ==
    /\ mPhase = "running"
    /\ LET d == drain(mBuffer, mWritten)
       IN  /\ mBuffer' = d.buffer
           /\ mWritten' = d.written
    /\ last_flush_time' = mClock
    /\ UNCHANGED <<mNext, mClock, shutdown_flag, flush_greenlet, mPhase, mLate>>
    /\ UnchangedOthers("mt")

\* shutdown_handler on a signal: metrics_logger.shutdown() (flush_now, set
\* the flag), then trigger_shutdown.
ShutdownHandler ==
    /\ mPhase = "running"
    /\ LET d == drain(mBuffer, mWritten)
       IN  /\ mBuffer' = d.buffer
           /\ mWritten' = d.written
    /\ last_flush_time' = mClock
    /\ shutdown_flag' = TRUE
    /\ mPhase' = "signalled"
    /\ UNCHANGED <<mNext, mClock, flush_greenlet, mLate>>
    /\ UnchangedOthers("mt")

\* main returns and the interpreter exits: shutdown_handler runs again
\* (atexit), with every greenlet that records metrics killed by _shutdown.
AtExit ==
    /\ mPhase = "signalled"
    /\ LET d == drain(mBuffer, mWritten)
       IN  /\ mBuffer' = d.buffer
           /\ mWritten' = d.written
    /\ last_flush_time' = mClock
    /\ mPhase' = "exited"
    /\ UNCHANGED <<mNext, mClock, shutdown_flag, flush_greenlet, mLate>>
    /\ UnchangedOthers("mt")

NextMetrics ==
    \/ MetricsTick
    \/ WriteMetric
    \/ AutoFlush
    \/ FlushNow
    \/ ShutdownHandler
    \/ AtExit

SpecMetrics == InitMetrics /\ [][NextMetrics]_vars

\* How many times the event e occurs in the sequence q.
Occurrences(e, q) == Cardinality({i \in 1..Len(q) : q[i] = e})

\* C28: every event recorded is in the buffer or in the file, once in all,
\* and when the process has exited the buffer is empty, so that every event
\* recorded has been written exactly once.
C28_EveryEventWrittenOnce ==
    /\ \A e \in 1..(mNext - 1) :
           Occurrences(e, mBuffer) + Occurrences(e, mWritten) = 1
    /\ mPhase = "exited" => mBuffer = <<>>

\* C28 witness: the process has exited, events were written by a full
\* buffer, by the flush loop and at exit, one of them recorded after the
\* shutdown signal.
C28_Witness ==
    /\ mPhase = "exited"
    /\ Len(mWritten) = MetricsMaxEvents
    /\ mLate # {}
    /\ flush_greenlet = "stopped"

====
